---- MODULE Spec2Model ----
(***************************************************************************)
(* Model of the request signer of python_rednote_crawler                   *)
(* (src/xhs_sign_utils.py): the canonical sign-string, the custom Base64   *)
(* codec, the CRC32 variant mrc, the header envelopes and the asynchronous *)
(* signing call sign_with_playwright.                                      *)
(*                                                                         *)
(* Representation.                                                         *)
(*  - A Python str is a sequence of code points (naturals); a literal of   *)
(*    the source is written as its code points with the text in a comment. *)
(*  - A list of bytes is a sequence of naturals.                           *)
(*  - A Python int that does not fit TLC's 32-bit integers (the            *)
(*    CRC values, up to 2^32) is the record [top, hi, lo] standing for     *)
(*    top * 2^32 + hi * 2^16 + lo with 0 <= hi, lo < 2^16; top = -1 is the *)
(*    sign extension of a negative two's-complement value, so the bitwise  *)
(*    operators of Python act limb by limb.                                *)
(*  - A call that can raise returns [ok |-> TRUE, val |-> v] or            *)
(*    [ok |-> FALSE, exc |-> name].                                        *)
(***************************************************************************)
EXTENDS Integers, Sequences, FiniteSets, TLC

VARIABLES
    \* --- the frame of one call of sign_with_playwright ---
    sw_pc,                               \* position of the coroutine
    sw_method, sw_uri, sw_data, sw_a1,   \* arguments method, uri, data, a1
    sw_b1,                               \* local b1
    sw_sign_str,                         \* local sign_str
    sw_md5_str,                          \* local md5_str
    sw_x3_value,                         \* local x3_value
    sw_result,                           \* the returned mapping, or None
    sw_raised,                           \* the exception that left the call, or None
    evaluations,                         \* the calls of page.evaluate, in order:
                                         \* [expr, answer], answer None while awaited
    clock,                               \* milliseconds elapsed on the system clock
    clock_reads,                         \* reads of time.time() during the call
    \* --- b64_encode applied to a list of bytes ---
    b64_data, b64_out,
    \* --- mrc applied to strings ---
    mrc_s, mrc_anything, mrc_t, mrc_out,
    \* --- two interleaved calls of sign_with_playwright ---
    co_calls,                            \* the frame of each coroutine
    co_clock,                            \* milliseconds elapsed on the system clock
    co_random,                           \* the results of random.choice so far
    co_tables,                           \* CRC32_TABLE and BASE64_CHARS of the module
    \* --- a crawler that calls the signer ---
    cr_config,                           \* which crawler, display_mode, max_notes_count
    cr_main,                             \* the frame of search() or process_urls()
    cr_queue,                            \* Visualizer.queue: items and unfinished tasks,
                                         \* and every action put so far
    cr_worker,                           \* the task of Visualizer._worker: its position,
                                         \* its action and the actions it has ended
    cr_signs,                            \* the calls of sign_with_playwright on self.page
    \* --- call_mnsv2 applied to two strings ---
    cm_sign_str, cm_md5_str, cm_expr,
    \* --- one API call of XhsCrawler: its signing call and its _request ---
    rq_call,                             \* the call site, its request and retry_count
    rq_pc,                               \* position of the coroutine
    rq_i,                                \* local i of _request
    rq_headers,                          \* local headers of the caller
    rq_attempts,                         \* the calls of client.request, in order:
                                         \* [headers, outcome]
    rq_evaluations,                      \* the calls of page.evaluate, in order, each
                                         \* with the number of attempts made before it
    rq_clock,                            \* seconds elapsed on the system clock
    rq_result                            \* what _request returned or raised, or None

signVars == <<sw_pc, sw_method, sw_uri, sw_data, sw_a1, sw_b1, sw_sign_str,
              sw_md5_str, sw_x3_value, sw_result, sw_raised, evaluations,
              clock, clock_reads>>
b64Vars  == <<b64_data, b64_out>>
mrcVars  == <<mrc_s, mrc_anything, mrc_t, mrc_out>>
coVars   == <<co_calls, co_clock, co_random, co_tables>>
crVars   == <<cr_config, cr_main, cr_queue, cr_worker, cr_signs>>
cmVars   == <<cm_sign_str, cm_md5_str, cm_expr>>
rqVars   == <<rq_call, rq_pc, rq_i, rq_headers, rq_attempts, rq_evaluations, rq_clock, rq_result>>
vars     == <<signVars, b64Vars, mrcVars, coVars, crVars, cmVars, rqVars>>
None == [t |-> "None"]

Min(a, b) == IF a <= b THEN a ELSE b

\* Sequences over S of length 0..n.
SeqUpTo(S, n) == UNION {[1..k -> S] : k \in 0..n}

\* f[lo] \o ... \o f[hi], halving the range so that long texts nest shallowly
RECURSIVE ConcatRange(_, _, _)
ConcatRange(f, lo, hi) ==
    IF lo > hi THEN <<>>
    ELSE IF lo = hi THEN f[lo]
    ELSE ConcatRange(f, lo, (lo + hi) \div 2) \o ConcatRange(f, ((lo + hi) \div 2) + 1, hi)

\* "".join(parts)
ConcatAll(parts) == ConcatRange(parts, 1, Len(parts))

\* s[a:b] of Python for 0 <= a <= b (indices from 0, clipped at the end).
Slice(s, a, b) == SubSeq(s, a + 1, Min(b, Len(s)))

(***************************************************************************)
(* Python's int, on limbs.                                                 *)
(***************************************************************************)
PyInt(top, hi, lo) == [top |-> top, hi |-> hi, lo |-> lo]

\* -1
MinusOne == PyInt(-1, 65535, 65535)

\* a ^ b on naturals
RECURSIVE XorNat(_, _)
XorNat(a, b) ==
    IF a = 0 THEN b
    ELSE IF b = 0 THEN a
    ELSE (((a % 2) + (b % 2)) % 2) + 2 * XorNat(a \div 2, b \div 2)

\* x ^ y on Python ints whose top limb is 0 or -1 (all bits of top equal)
PyXor(x, y) ==
    PyInt(IF x.top = y.top THEN 0 ELSE -1, XorNat(x.hi, y.hi), XorNat(x.lo, y.lo))

\* ctypes.c_uint32(num).value: num modulo 2^32
c_uint32(num) == PyInt(0, num.hi, num.lo)

\* val >> bit for 0 <= val < 2^32 and 0 <= bit <= 16
ShiftRight(val, bit) ==
    PyInt(0, val.hi \div (2 ^ bit),
             (val.hi % (2 ^ bit)) * (2 ^ (16 - bit)) + val.lo \div (2 ^ bit))

(***************************************************************************)
(* src/xhs_sign_utils.py:13-58, the tables.  Entry i of CRC32_TABLE is     *)
(* <<hi, lo>> with hi * 65536 + lo the number of the source.               *)
(***************************************************************************)
\* "ZmserbBoHQtNP+wOcza/LpngG8yJq42KWYj0DSfdikx3VT16IlUAFM97hECvuRX5"
BASE64_CHARS == <<
    90, 109, 115, 101, 114, 98, 66, 111, 72, 81, 116, 78, 80, 43, 119, 79,
    99, 122, 97, 47, 76, 112, 110, 103, 71, 56, 121, 74, 113, 52, 50, 75,
    87, 89, 106, 48, 68, 83, 102, 100, 105, 107, 120, 51, 86, 84, 49, 54,
    73, 108, 85, 65, 70, 77, 57, 55, 104, 69, 67, 118, 117, 82, 88, 53
>>

CRC32_TABLE == <<
    <<0,0>>, <<30471,12438>>, <<60942,24876>>, <<39177,20922>>, <<1901,50201>>, <<28778,62607>>,
    <<59747,42293>>, <<40548,38307>>, <<3803,34866>>, <<31196,47268>>, <<57557,59678>>, <<38866,55688>>,
    <<2486,19499>>, <<32433,31933>>, <<59320,11527>>, <<37055,7569>>, <<7607,4196>>, <<27312,8434>>,
    <<62393,29000>>, <<33982,16862>>, <<6874,54397>>, <<28125,58603>>, <<62676,46417>>, <<33747,34247>>,
    <<4972,38998>>, <<25707,43200>>, <<64866,63866>>, <<35429,51692>>, <<5121,23631>>, <<25350,27865>>,
    <<64015,15715>>, <<36104,3573>>, <<15214,8392>>, <<19561,4190>>, <<54624,16868>>, <<41575,29042>>,
    <<15363,58577>>, <<19204,54343>>, <<53773,34301>>, <<42250,46443>>, <<13749,43258>>, <<17074,39020>>,
    <<56251,51670>>, <<44220,63808>>, <<13016,27875>>, <<17887,23669>>, <<56534,3535>>, <<43985,15705>>,
    <<9945,12460>>, <<20958,58>>, <<51415,20864>>, <<49104,24854>>, <<8628,62645>>, <<22195,50211>>,
    <<53178,38297>>, <<47293,42255>>, <<10242,47262>>, <<24325,34824>>, <<50700,55730>>, <<45323,59684>>,
    <<12143,31879>>, <<22632,19473>>, <<49505,7595>>, <<46694,11581>>, <<30428,16784>>, <<475,28934>>,
    <<39122,8380>>, <<61397,4138>>, <<29105,34185>>, <<1718,46367>>, <<40895,58533>>, <<59576,54323>>,
    <<30727,51618>>, <<3840,63796>>, <<38409,43150>>, <<57614,38936>>, <<32618,3515>>, <<2157,15661>>,
    <<37220,27799>>, <<58979,23553>>, <<27499,20980>>, <<7276,24930>>, <<34149,12504>>, <<62050,78>>,
    <<27654,38381>>, <<6913,42363>>, <<33288,62657>>, <<62735,50263>>, <<26032,55750>>, <<4791,59728>>,
    <<35774,47338>>, <<64697,34940>>, <<25309,7647>>, <<5594,11593>>, <<36051,31987>>, <<64468,19557>>,
    <<19890,24920>>, <<15029,20942>>, <<41916,116>>, <<54459,12514>>, <<19167,42305>>, <<15832,38359>>,
    <<42193,50285>>, <<54230,62715>>, <<17257,59754>>, <<13422,55804>>, <<44391,34886>>, <<55904,47312>>,
    <<17412,11635>>, <<13059,7653>>, <<43530,19551>>, <<56589,31945>>, <<20485,28988>>, <<9986,16810>>,
    <<48651,4112>>, <<51468,8326>>, <<22376,46373>>, <<8303,34227>>, <<47462,54281>>, <<52833,58527>>,
    <<24286,63758>>, <<10713,51608>>, <<45264,38946>>, <<51159,43188>>, <<22963,15639>>, <<11956,3457>>,
    <<47037,23611>>, <<49338,27821>>, <<60856,33568>>, <<39615,46006>>, <<950,57868>>, <<29873,53914>>,
    <<60117,18233>>, <<40402,30639>>, <<1243,9749>>, <<29660,5763>>, <<58211,2834>>, <<37988,15236>>,
    <<3437,27198>>, <<31338,23208>>, <<58382,53003>>, <<37641,65437>>, <<2560,44583>>, <<32007,40625>>,
    <<61455,37700>>, <<34568,41938>>, <<7681,62056>>, <<26886,49918>>, <<63330,22365>>, <<32869,26571>>,
    <<6508,13937>>, <<28267,1767>>, <<65236,7030>>, <<35283,11232>>, <<4314,31322>>, <<26589,19148>>,
    <<63929,57199>>, <<36542,61433>>, <<6071,48707>>, <<24752,36565>>, <<54998,41960>>, <<41425,37758>>,
    <<14552,49860>>, <<20447,62034>>, <<53691,26609>>, <<42684,22375>>, <<16309,1757>>, <<18610,13899>>,
    <<55309,11226>>, <<44810,6988>>, <<13827,19190>>, <<16644,31328>>, <<57184,61379>>, <<43111,57173>>,
    <<12654,36591>>, <<18025,48761>>, <<52065,45964>>, <<48230,33562>>, <<9583,53920>>, <<21096,57910>>,
    <<52236,30613>>, <<47883,18179>>, <<8706,5817>>, <<21765,9775>>, <<50618,15294>>, <<45757,2856>>,
    <<11188,23186>>, <<23731,27140>>, <<49879,65447>>, <<46544,53041>>, <<11481,40587>>, <<23518,44573>>,
    <<39780,49840>>, <<60515,61990>>, <<30058,41884>>, <<621,37642>>, <<39945,1705>>, <<60174,13887>>,
    <<29191,26501>>, <<1280,22291>>, <<38335,19074>>, <<58040,31252>>, <<31665,11182>>, <<3254,6968>>,
    <<37586,36507>>, <<58837,48653>>, <<31964,61367>>, <<3035,57121>>, <<34515,53972>>, <<61908,57922>>,
    <<26845,46072>>, <<8154,33646>>, <<33214,5837>>, <<63161,9819>>, <<28592,30689>>, <<6327,18295>>,
    <<34824,23270>>, <<65295,27248>>, <<26118,15306>>, <<4353,2908>>, <<36709,40703>>, <<63586,44649>>,
    <<24939,65491>>, <<5740,53061>>, <<40970,57976>>, <<55053,53998>>, <<19972,33620>>, <<14595,46018>>,
    <<42855,9825>>, <<53344,5879>>, <<18793,18253>>, <<15982,30683>>, <<44753,27210>>, <<55766,23260>>,
    <<16607,2918>>, <<14296,15344>>, <<43452,44627>>, <<57019,40645>>, <<18354,53119>>, <<12469,65513>>,
    <<48573,61980>>, <<51898,49802>>, <<21427,37680>>, <<9396,41894>>, <<47824,13829>>, <<52695,1683>>,
    <<21726,22313>>, <<9177,26559>>, <<45926,31278>>, <<50273,19128>>, <<23912,6914>>, <<10863,11156>>,
    <<46091,48695>>, <<49932,36513>>, <<23045,57115>>, <<11522,61325>>
>>

\* CRC32_TABLE[i] of Python (indices from 0); IndexError past the end
TableLookup(i) ==
    IF i < Len(CRC32_TABLE)
    THEN [ok |-> TRUE, val |-> PyInt(0, CRC32_TABLE[i + 1][1], CRC32_TABLE[i + 1][2])]
    ELSE [ok |-> FALSE, exc |-> "IndexError"]

\* BASE64_CHARS[i] of Python (indices from 0)
Base64Char(i) == BASE64_CHARS[i + 1]

(***************************************************************************)
(* src/xhs_sign_utils.py:62-73                                             *)
(***************************************************************************)
\* val = c_uint32(num).value >> bit;
\* return (val + (MAX32INT + 1)) % (2 * (MAX32INT + 1)) - MAX32INT - 1
\* MAX32INT + 1 = 2^32 only moves the top limb: top + 1, modulo 2, minus 1.
_right_shift_unsigned(num, bit) ==
    LET val == ShiftRight(c_uint32(num), bit)
    IN  PyInt(((val.top + 1) % 2) - 1, val.hi, val.lo)

\* 3988292384 = 60856 * 65536 + 33568
MrcFinalMask == PyInt(0, 60856, 33568)

\* mrc's loop reading one character too many: range(min(58, len(e)))
RECURSIVE MrcLoop58(_, _, _)
MrcLoop58(e, n, o) ==
    IF n >= Min(58, Len(e)) THEN [ok |-> TRUE, val |-> o]
    ELSE LET entry == TableLookup(XorNat(o.lo % 256, e[n + 1]))
         IN  IF ~entry.ok THEN entry
             ELSE MrcLoop58(e, n + 1, PyXor(entry.val, _right_shift_unsigned(o, 8)))

\* mrc's loop without the truncation: range(len(e))
RECURSIVE MrcLoopWhole(_, _, _)
MrcLoopWhole(e, n, o) ==
    IF n >= Len(e) THEN [ok |-> TRUE, val |-> o]
    ELSE LET entry == TableLookup(XorNat(o.lo % 256, e[n + 1]))
         IN  IF ~entry.ok THEN entry
             ELSE MrcLoopWhole(e, n + 1, PyXor(entry.val, _right_shift_unsigned(o, 8)))

\* the loop of mrc from iteration n with running value o
RECURSIVE mrc_loop(_, _, _)
mrc_loop(e, n, o) ==
    IF n >= Min(57, Len(e)) THEN [ok |-> TRUE, val |-> o]
    ELSE \* o & 255 is the low byte of the low limb
         LET entry == TableLookup(XorNat(o.lo % 256, e[n + 1]))
         IN  IF ~entry.ok THEN entry
             ELSE mrc_loop(e, n + 1, PyXor(entry.val, _right_shift_unsigned(o, 8)))

\* mrc returning o ^ 3988292384, the "^ -1" left out
MrcWithoutInvert(e) ==
    LET o == mrc_loop(e, 0, MinusOne)
    IN  IF o.ok THEN [ok |-> TRUE, val |-> PyXor(o.val, MrcFinalMask)] ELSE o

\* o = -1; the loop; return o ^ -1 ^ 3988292384
mrc(e) ==
    LET o == mrc_loop(e, 0, MinusOne)
    IN  IF o.ok
        THEN [ok |-> TRUE, val |-> PyXor(PyXor(o.val, MinusOne), MrcFinalMask)]
        ELSE o

(***************************************************************************)
(* src/xhs_sign_utils.py:75-122, the custom Base64 codec                   *)
(***************************************************************************)
\* _triplet_to_base64 with the third symbol taken from (e >> 8) instead of
\* (e >> 6)
TripletShiftedBy8(e) ==
    << Base64Char((e \div (2 ^ 18)) % 64),
       Base64Char((e \div (2 ^ 12)) % 64),
       Base64Char((e \div (2 ^ 8)) % 64),
       Base64Char(e % 64) >>

\* (e >> k) & 63 is (e \div 2^k) % 64
_triplet_to_base64(e) ==
    << Base64Char((e \div (2 ^ 18)) % 64),
       Base64Char((e \div (2 ^ 12)) % 64),
       Base64Char((e \div (2 ^ 6)) % 64),
       Base64Char(e % 64) >>

\* for i in range(start, end, 3): the joined triplets.
\* (d << 16) & 0xFF0000 is (d % 256) * 2^16, and likewise for the other bytes.
_encode_chunk(data, start, end) ==
    ConcatAll([k \in 1..((end - start + 2) \div 3) |->
        LET i == start + 3 * (k - 1)
            c == (data[i + 1] % 256) * (2 ^ 16)
                 + (data[i + 2] % 256) * (2 ^ 8)
                 + (data[i + 3] % 256)
        IN  _triplet_to_base64(c)])

\* for i in range(i, main_length, step): the joined chunks
RECURSIVE EncodeChunks(_, _, _, _)
EncodeChunks(data, i, main_length, step) ==
    IF i >= main_length THEN <<>>
    ELSE _encode_chunk(data, i, Min(i + step, main_length))
         \o EncodeChunks(data, i + step, main_length, step)

\* b64_encode that leaves the "=" padding out
EncodeWithoutPadding(data, step) ==
    LET length      == Len(data)
        remainder   == length % 3
        main_length == length - remainder
        tail ==
            IF remainder = 1
            THEN LET a == data[length]
                 IN  <<Base64Char(a \div 4), Base64Char((a * 16) % 64)>>
            ELSE IF remainder = 2
            THEN LET a == data[length - 1] * 256 + data[length]
                 IN  <<Base64Char(a \div 1024), Base64Char((a \div 16) % 64),
                       Base64Char((a * 4) % 64)>>
            ELSE <<>>
    IN  EncodeChunks(data, 0, main_length, step) \o tail

\* b64_encode with the chunk length as a parameter; "=" is 61
EncodeWithChunk(data, step) ==
    LET length      == Len(data)
        remainder   == length % 3
        main_length == length - remainder
        tail ==
            IF remainder = 1
            THEN LET a == data[length]
                 IN  <<Base64Char(a \div 4), Base64Char((a * 16) % 64), 61, 61>>
            ELSE IF remainder = 2
            THEN LET a == data[length - 1] * 256 + data[length]
                 IN  <<Base64Char(a \div 1024), Base64Char((a \div 16) % 64),
                       Base64Char((a * 4) % 64), 61>>
            ELSE <<>>
    IN  EncodeChunks(data, 0, main_length, step) \o tail

\* b64_encode whose loop advances by 16380 while each chunk still spans
\* 16383 bytes: the chunks start on multiples of 3 but overlap by one group
B64EncodeOverlapping(data) ==
    LET length      == Len(data)
        main_length == length - (length % 3)
        head == ConcatAll([k \in 1..((main_length + 16379) \div 16380) |->
                    _encode_chunk(data, 16380 * (k - 1),
                                  Min(16380 * (k - 1) + 16383, main_length))])
    IN  head \o SubSeq(EncodeWithChunk(data, 16383),
                       4 * (main_length \div 3) + 1, 4 * ((length + 2) \div 3))

b64_encode(data) == EncodeWithChunk(data, 16383)

(***************************************************************************)
(* Python values and text                                                  *)
(***************************************************************************)
StrV(s)       == [t |-> "str", s |-> s]
IntV(n)       == [t |-> "int", n |-> n]
BigV(p)       == [t |-> "bigint", p |-> p]     \* an int held as PyInt limbs
BoolV(b)      == [t |-> "bool", b |-> b]
\* a dict is its items in insertion order, each <<key, value>> with a str key
DictV(items)  == [t |-> "dict", items |-> items]
ListV(elems)  == [t |-> "list", elems |-> elems]

\* the decimal digits of a natural
RECURSIVE Dec(_)
Dec(n) == IF n < 10 THEN <<48 + n>> ELSE Dec(n \div 10) \o <<48 + (n % 10)>>

\* the decimal digits of n < 10^width, zero-padded to width
RECURSIVE DecPad(_, _)
DecPad(n, width) ==
    IF width = 0 THEN <<>> ELSE DecPad(n \div 10, width - 1) \o <<48 + (n % 10)>>

\* str(n) for an int of the machine range; "-" is 45
IntStr(n) == IF n < 0 THEN <<45>> \o Dec(0 - n) ELSE Dec(n)

\* str(p) for a PyInt p with top in {-1, 0}.  The magnitude is
\* H * 65536 + L + c; with H = 100 * a + b it is (65536 * a) * 100 + Y, which is
\* split at 10^5 without leaving the machine range.
PyIntStr(p) ==
    LET neg == p.top < 0
        H == IF neg THEN 65535 - p.hi ELSE p.hi
        L == IF neg THEN 65535 - p.lo ELSE p.lo
        c == IF neg THEN 1 ELSE 0
        X == 65536 * (H \div 100)
        Y == 65536 * (H % 100) + L + c
        low == (X % 1000) * 100 + Y
        Q == (X \div 1000) + (low \div 100000)
        R == low % 100000
        digits == IF Q = 0 THEN Dec(R) ELSE Dec(Q) \o DecPad(R, 5)
    IN  IF neg THEN <<45>> \o digits ELSE digits

\* one hexadecimal digit, "0".."9" then "A".. or "a"..
HexDigit(d, upper) == IF d < 10 THEN 48 + d ELSE (IF upper THEN 55 ELSE 87) + d

\* the value of a hexadecimal digit character
HexVal(ch) ==
    IF ch >= 48 /\ ch <= 57 THEN ch - 48
    ELSE IF ch >= 65 /\ ch <= 70 THEN ch - 55
    ELSE ch - 87

IsUpper(ch) == ch >= 65 /\ ch <= 90
IsLower(ch) == ch >= 97 /\ ch <= 122
IsDigit(ch) == ch >= 48 /\ ch <= 57

\* str.upper() on text whose cased characters are ASCII letters
Upper(s) == [i \in 1..Len(s) |-> IF IsLower(s[i]) THEN s[i] - 32 ELSE s[i]]

\* str.replace(old, new) for a one-character old
Replace(s, old, new) ==
    ConcatAll([i \in 1..Len(s) |-> IF s[i] = old THEN new ELSE <<s[i]>>])

\* sep.join(parts)
Join(parts, sep) ==
    ConcatAll([i \in 1..Len(parts) |-> IF i = 1 THEN parts[i] ELSE sep \o parts[i]])

\* str.encode("utf-8") of one code point (not a surrogate)
Utf8(cp) ==
    IF cp < 128 THEN <<cp>>
    ELSE IF cp < 2048 THEN <<192 + (cp \div 64), 128 + (cp % 64)>>
    ELSE IF cp < 65536
    THEN <<224 + (cp \div 4096), 128 + ((cp \div 64) % 64), 128 + (cp % 64)>>
    ELSE <<240 + (cp \div 262144), 128 + ((cp \div 4096) % 64),
           128 + ((cp \div 64) % 64), 128 + (cp % 64)>>

\* s.encode("utf-8")
Utf8Bytes(s) == ConcatAll([i \in 1..Len(s) |-> Utf8(s[i])])

(***************************************************************************)
(* urllib.parse.quote (imported at src/xhs_sign_utils.py:8)                *)
(***************************************************************************)
\* the characters quote never encodes: letters, digits and "_.-~"
AlwaysSafe(b) ==
    IsUpper(b) \/ IsLower(b) \/ IsDigit(b) \/ b \in {95 (* _ *), 46 (* . *), 45 (* - *), 126 (* ~ *)}

\* one byte of the UTF-8 form: itself when safe, else "%XX" in upper case
QuoteByte(b, safe) ==
    IF AlwaysSafe(b) \/ (b < 128 /\ b \in safe) THEN <<b>>
    ELSE <<37 (* % *), HexDigit(b \div 16, TRUE), HexDigit(b % 16, TRUE)>>

QuoteBytes(bs, safe) == ConcatAll([i \in 1..Len(bs) |-> QuoteByte(bs[i], safe)])

\* quote(s, safe=...), safe given as the set of its characters
quote(s, safe) == QuoteBytes(Utf8Bytes(s), safe)

(***************************************************************************)
(* json.dumps (called at src/xhs_sign_utils.py:136, 167, 177)              *)
(***************************************************************************)
\* "\uXXXX" in lower case for x < 2^16
UEscape(x) ==
    <<92 (* \ *), 117 (* u *), HexDigit(x \div 4096, FALSE), HexDigit((x \div 256) % 16, FALSE),
      HexDigit((x \div 16) % 16, FALSE), HexDigit(x % 16, FALSE)>>

\* one character inside a JSON string
JsonChar(ch, ensure_ascii) ==
    IF ch = 34 (* " *) THEN <<92, 34>> (* \" *)
    ELSE IF ch = 92 (* \ *) THEN <<92, 92>> (* \\ *)
    ELSE IF ch = 10 THEN <<92, 110>> (* \n *)
    ELSE IF ch = 13 THEN <<92, 114>> (* \r *)
    ELSE IF ch = 9 THEN <<92, 116>> (* \t *)
    ELSE IF ch = 8 THEN <<92, 98>> (* \b *)
    ELSE IF ch = 12 THEN <<92, 102>> (* \f *)
    ELSE IF ch < 32 THEN UEscape(ch)
    ELSE IF ~ensure_ascii \/ ch < 127 THEN <<ch>>
    ELSE IF ch < 65536 THEN UEscape(ch)
    ELSE UEscape(55296 + ((ch - 65536) \div 1024)) \o UEscape(56320 + ((ch - 65536) % 1024))

JsonChars(s, ensure_ascii) ==
    ConcatAll([i \in 1..Len(s) |-> JsonChar(s[i], ensure_ascii)])

JsonString(s, ensure_ascii) == <<34 (* " *)>> \o JsonChars(s, ensure_ascii) \o <<34 (* " *)>>

\* json.dumps(obj, separators=(item_sep, key_sep), ensure_ascii=ensure_ascii)
RECURSIVE json_dumps(_, _, _, _)
json_dumps(obj, item_sep, key_sep, ensure_ascii) ==
    CASE obj.t = "None"   -> <<110, 117, 108, 108>> (* null *)
      [] obj.t = "bool"   -> IF obj.b THEN <<116, 114, 117, 101>> (* true *) ELSE <<102, 97, 108, 115, 101>> (* false *)
      [] obj.t = "int"    -> IntStr(obj.n)
      [] obj.t = "bigint" -> PyIntStr(obj.p)
      [] obj.t = "str"    -> JsonString(obj.s, ensure_ascii)
      [] obj.t = "list"   ->
            <<91 (* [ *)>>
            \o Join([i \in 1..Len(obj.elems) |->
                        json_dumps(obj.elems[i], item_sep, key_sep, ensure_ascii)],
                    item_sep)
            \o <<93 (* ] *)>>
      [] obj.t = "dict"   ->
            <<123 (* { *)>>
            \o Join([i \in 1..Len(obj.items) |->
                        JsonString(obj.items[i][1], ensure_ascii) \o key_sep
                        \o json_dumps(obj.items[i][2], item_sep, key_sep, ensure_ascii)],
                    item_sep)
            \o <<125 (* } *)>>

\* str(value) for the scalar values of a query mapping
PyStr(value) ==
    CASE value.t = "str"    -> value.s
      [] value.t = "int"    -> IntStr(value.n)
      [] value.t = "bigint" -> PyIntStr(value.p)
      [] value.t = "bool"   -> IF value.b THEN <<84, 114, 117, 101>> (* True *) ELSE <<70, 97, 108, 115, 101>> (* False *)
      [] value.t = "None"   -> <<78, 111, 110, 101>> (* None *)

\* Python truthiness: bool(value)
Truthy(value) ==
    CASE value.t = "None"   -> FALSE
      [] value.t = "bool"   -> value.b
      [] value.t = "int"    -> value.n # 0
      [] value.t = "bigint" -> value.p # PyInt(0, 0, 0)
      [] value.t = "str"    -> value.s # <<>>
      [] value.t = "list"   -> value.elems # <<>>
      [] value.t = "dict"   -> value.items # <<>>

(***************************************************************************)
(* src/xhs_sign_utils.py:92-104                                            *)
(***************************************************************************)
\* one iteration of the while loop of encode_utf8 on [i, result]: "%XX" gives
\* int("XX", 16), any other character its ord
PercentStep(encoded, st) ==
    IF encoded[st.i + 1] = 37 (* % *)
    THEN [i      |-> st.i + 3,
          result |-> Append(st.result,
                            HexVal(encoded[st.i + 2]) * 16 + HexVal(encoded[st.i + 3]))]
    ELSE [i |-> st.i + 1, result |-> Append(st.result, encoded[st.i + 1])]

\* at most k iterations of the loop
RECURSIVE PercentSteps(_, _, _)
PercentSteps(encoded, st, k) ==
    IF k = 0 \/ st.i >= Len(encoded) THEN st
    ELSE PercentSteps(encoded, PercentStep(encoded, st), k - 1)

\* the whole loop, run 32 iterations at a time
RECURSIVE PercentLoop(_, _)
PercentLoop(encoded, st) ==
    IF st.i >= Len(encoded) THEN st.result
    ELSE PercentLoop(encoded, PercentSteps(encoded, st, 32))

\* quote(s, safe="~()*!.'") and then the loop
encode_utf8(s) ==
    PercentLoop(quote(s, {126 (* ~ *), 40 (* ( *), 41 (* ) *), 42 (* * *), 33 (* ! *), 46 (* . *), 39 (* ' *)}),
                [i |-> 0, result |-> <<>>])

(***************************************************************************)
(* src/xhs_sign_utils.py:124-126                                           *)
(***************************************************************************)
\* number of streams of random draws the model considers
TraceStreams == 2

\* "abcdef0123456789", the population of random.choice
TraceAlphabet == <<97, 98, 99, 100, 101, 102, 48, 49, 50, 51, 52, 53, 54, 55, 56, 57>> (* abcdef0123456789 *)

\* get_trace_id with 15 draws: range(15)
GetTraceId15(k) ==
    [i \in 1..15 |-> <<97, 98, 99, 100, 101, 102, 48, 49, 50, 51, 52, 53, 54, 55, 56, 57>>[((7 * k + (2 * k + 1) * i) % 16) + 1]]

\* get_trace_id(): 16 draws of random.choice.  The random generator is an
\* input: stream k makes draw i pick index (7 * k + (2 * k + 1) * i) % 16.
get_trace_id(k) ==
    [i \in 1..16 |-> TraceAlphabet[((7 * k + (2 * k + 1) * i) % 16) + 1]]

(***************************************************************************)
(* src/xhs_sign_utils.py:130-156                                           *)
(***************************************************************************)
\* _build_sign_string with "if data:" in place of "if data is not None:"
BuildSignStringIfData(uri, data, method) ==
    IF Upper(method) = <<80, 79, 83, 84>> (* POST *)
    THEN IF Truthy(data)
         THEN IF data.t = "dict"
              THEN uri \o json_dumps(data, <<44>> (* , *), <<58>> (* : *), FALSE)
              ELSE IF data.t = "str" THEN uri \o data.s
              ELSE uri
         ELSE uri
    ELSE IF ~Truthy(data) \/ (data.t = "dict" /\ Len(data.items) = 0)
         THEN uri
         ELSE IF data.t = "dict"
         THEN uri \o <<63>> (* ? *)
              \o Join([i \in 1..Len(data.items) |->
                          data.items[i][1] \o <<61>> (* = *)
                          \o quote(PyStr(data.items[i][2]), {})],
                      <<38>> (* & *))
         ELSE IF data.t = "str" THEN uri \o <<63>> (* ? *) \o data.s
         ELSE uri

\* _build_sign_string with quote(value_str), whose default keeps "/" unencoded
BuildSignStringSlashSafe(uri, data, method) ==
    IF Upper(method) = <<80, 79, 83, 84>> (* POST *)
    THEN IF data # None
         THEN IF data.t = "dict"
              THEN uri \o json_dumps(data, <<44>> (* , *), <<58>> (* : *), FALSE)
              ELSE IF data.t = "str" THEN uri \o data.s
              ELSE uri
         ELSE uri
    ELSE IF ~Truthy(data) \/ (data.t = "dict" /\ Len(data.items) = 0)
         THEN uri
         ELSE IF data.t = "dict"
         THEN uri \o <<63>> (* ? *)
              \o Join([i \in 1..Len(data.items) |->
                          data.items[i][1] \o <<61>> (* = *)
                          \o quote(PyStr(data.items[i][2]), {47 (* / *)})],
                      <<38>> (* & *))
         ELSE IF data.t = "str" THEN uri \o <<63>> (* ? *) \o data.s
         ELSE uri

\* lines 130-152
_build_sign_string(uri, data, method) ==
    IF Upper(method) = <<80, 79, 83, 84>> (* POST *)
    THEN IF data # None
         THEN IF data.t = "dict"
              THEN uri \o json_dumps(data, <<44>> (* , *), <<58>> (* : *), FALSE)
              ELSE IF data.t = "str" THEN uri \o data.s
              ELSE uri
         ELSE uri
    ELSE IF ~Truthy(data) \/ (data.t = "dict" /\ Len(data.items) = 0)
         THEN uri
         ELSE IF data.t = "dict"
         THEN uri \o <<63>> (* ? *)
              \o Join([i \in 1..Len(data.items) |->
                          data.items[i][1] \o <<61>> (* = *)
                          \o quote(PyStr(data.items[i][2]), {})],
                      <<38>> (* & *))
         ELSE IF data.t = "str" THEN uri \o <<63>> (* ? *) \o data.s
         ELSE uri

\* sum of w(j) * bs[j] modulo 65521 over the bytes lo..hi
RECURSIVE ByteSum(_, _, _, _)
ByteSum(bs, lo, hi, weighted) ==
    IF lo > hi THEN 0
    ELSE IF lo = hi THEN ((IF weighted THEN (lo % 251) + 1 ELSE 1) * bs[lo]) % 65521
    ELSE (ByteSum(bs, lo, (lo + hi) \div 2, weighted)
          + ByteSum(bs, ((lo + hi) \div 2) + 1, hi, weighted)) % 65521

\* hashlib.md5(s.encode("utf-8")).hexdigest(): 32 lower-case hexadecimal
\* digits fixed by the bytes of s.  The rounds of MD5 are not modelled; the
\* digest is a checksum of the same bytes in the same format.
_md5_hex(s) ==
    LET bs == Utf8Bytes(s)
        p  == ByteSum(bs, 1, Len(bs), FALSE)
        q  == ByteSum(bs, 1, Len(bs), TRUE)
    IN  [i \in 1..32 |-> HexDigit(((p + 1) * i + q * (i % 7) + Len(bs)) % 16, FALSE)]

(***************************************************************************)
(* src/xhs_sign_utils.py:158-177                                           *)
(***************************************************************************)
\* _build_xs_payload with x4 always "object", whatever data_type is
BuildXsPayloadObject(x3_value, data_type) ==
    LET s == DictV(<< <<<<120, 48>> (* x0 *), StrV(<<52, 46, 50, 46, 49>> (* 4.2.1 *))>>,
                      <<<<120, 49>> (* x1 *), StrV(<<120, 104, 115, 45, 112, 99, 45, 119, 101, 98>> (* xhs-pc-web *))>>,
                      <<<<120, 50>> (* x2 *), StrV(<<77, 97, 99, 32, 79, 83>> (* Mac OS *))>>,
                      <<<<120, 51>> (* x3 *), x3_value>>,
                      <<<<120, 52>> (* x4 *), StrV(<<111, 98, 106, 101, 99, 116>> (* object *))>> >>)
    IN  <<88, 89, 83, 95>> (* XYS_ *) \o b64_encode(encode_utf8(json_dumps(s, <<44>> (* , *), <<58>> (* : *), TRUE)))

_build_xs_payload(x3_value, data_type) ==
    LET s == DictV(<< <<<<120, 48>> (* x0 *), StrV(<<52, 46, 50, 46, 49>> (* 4.2.1 *))>>,
                      <<<<120, 49>> (* x1 *), StrV(<<120, 104, 115, 45, 112, 99, 45, 119, 101, 98>> (* xhs-pc-web *))>>,
                      <<<<120, 50>> (* x2 *), StrV(<<77, 97, 99, 32, 79, 83>> (* Mac OS *))>>,
                      <<<<120, 51>> (* x3 *), x3_value>>,
                      <<<<120, 52>> (* x4 *), StrV(data_type)>> >>)
    IN  <<88, 89, 83, 95>> (* XYS_ *) \o b64_encode(encode_utf8(json_dumps(s, <<44>> (* , *), <<58>> (* : *), TRUE)))

\* the payload mapping of _build_xs_common, given x9
XsCommonPayload(a1, b1, x_s, x_t, x9) ==
    DictV(<< <<<<115, 48>> (* s0 *), IntV(3)>>,
             <<<<115, 49>> (* s1 *), StrV(<<>>)>>,
             <<<<120, 48>> (* x0 *), StrV(<<49>> (* 1 *))>>,
             <<<<120, 49>> (* x1 *), StrV(<<52, 46, 50, 46, 50>> (* 4.2.2 *))>>,
             <<<<120, 50>> (* x2 *), StrV(<<77, 97, 99, 32, 79, 83>> (* Mac OS *))>>,
             <<<<120, 51>> (* x3 *), StrV(<<120, 104, 115, 45, 112, 99, 45, 119, 101, 98>> (* xhs-pc-web *))>>,
             <<<<120, 52>> (* x4 *), StrV(<<52, 46, 55, 52, 46, 48>> (* 4.74.0 *))>>,
             <<<<120, 53>> (* x5 *), StrV(a1)>>,
             <<<<120, 54>> (* x6 *), StrV(x_t)>>,
             <<<<120, 55>> (* x7 *), StrV(x_s)>>,
             <<<<120, 56>> (* x8 *), StrV(b1)>>,
             <<<<120, 57>> (* x9 *), BigV(x9)>>,
             <<<<120, 49, 48>> (* x10 *), IntV(154)>>,
             <<<<120, 49, 49>> (* x11 *), StrV(<<110, 111, 114, 109, 97, 108>> (* normal *))>> >>)

\* _build_xs_common hashing x_s + x_t + b1, the first two exchanged
BuildXsCommonSwapped(a1, b1, x_s, x_t) ==
    LET x9 == mrc(x_s \o x_t \o b1)
    IN  IF ~x9.ok THEN x9
        ELSE [ok  |-> TRUE,
              val |-> b64_encode(encode_utf8(json_dumps(
                          XsCommonPayload(a1, b1, x_s, x_t, x9.val),
                          <<44>> (* , *), <<58>> (* : *), TRUE)))]

\* _build_xs_common hashing b1 + x_t + x_s, b1 first
BuildXsCommonB1First(a1, b1, x_s, x_t) ==
    LET x9 == mrc(b1 \o x_t \o x_s)
    IN  IF ~x9.ok THEN x9
        ELSE [ok  |-> TRUE,
              val |-> b64_encode(encode_utf8(json_dumps(
                          XsCommonPayload(a1, b1, x_s, x_t, x9.val),
                          <<44>> (* , *), <<58>> (* : *), TRUE)))]

\* raises what mrc raises
_build_xs_common(a1, b1, x_s, x_t) ==
    LET x9 == mrc(x_t \o x_s \o b1)
    IN  IF ~x9.ok THEN x9
        ELSE [ok  |-> TRUE,
              val |-> b64_encode(encode_utf8(json_dumps(
                          XsCommonPayload(a1, b1, x_s, x_t, x9.val),
                          <<44>> (* , *), <<58>> (* : *), TRUE)))]

(***************************************************************************)
(* page.evaluate: the browser page, outside the program.  An evaluation    *)
(* either raises or returns a value.                                       *)
(***************************************************************************)
EvalRaise     == [kind |-> "raise"]
EvalReturn(v) == [kind |-> "return", val |-> v]

\* "() => window.localStorage"
LocalStorageExpr == <<40, 41, 32, 61, 62, 32, 119, 105, 110, 100, 111, 119, 46, 108, 111, 99, 97, 108, 83, 116, 111, 114, 97, 103, 101>> (* () => window.localStorage *)

\* dict.get(key, default)
RECURSIVE DictGetFrom(_, _, _, _)
DictGetFrom(items, i, key, default) ==
    IF i > Len(items) THEN default
    ELSE IF items[i][1] = key THEN items[i][2]
    ELSE DictGetFrom(items, i + 1, key, default)

DictGet(d, key, default) == DictGetFrom(d.items, 1, key, default)

(***************************************************************************)
(* src/xhs_sign_utils.py:179-196                                           *)
(***************************************************************************)
\* get_b1_from_localstorage reading the entry named "a": local_storage.get("a", "")
GetB1WrongKey(answer) ==
    IF answer.kind = "raise" THEN <<>>
    ELSE IF answer.val.t # "dict" THEN <<>>
    ELSE DictGet(answer.val, <<97>> (* a *), StrV(<<>>)).s

\* get_b1_from_localstorage once page.evaluate has answered: the value that
\* the coroutine returns.  A value without .get raises AttributeError inside
\* the try and is caught like an exception of the evaluation.
get_b1_from_localstorage(answer) ==
    IF answer.kind = "raise" THEN <<>>
    ELSE IF answer.val.t # "dict" THEN <<>>
    ELSE DictGet(answer.val, <<98, 49>> (* b1 *), StrV(<<>>)).s

\* the expression call_mnsv2 hands to page.evaluate
Mnsv2Expr(sign_str, md5_str) ==
    LET sign_str_escaped ==
            Replace(Replace(Replace(sign_str, 92 (* \ *), <<92, 92>> (* \\ *)),
                            39 (* ' *), <<92, 39>> (* \' *)),
                    10, <<92, 110>> (* \n *))
        md5_str_escaped ==
            Replace(Replace(md5_str, 92 (* \ *), <<92, 92>> (* \\ *)), 39 (* ' *), <<92, 39>> (* \' *))
    IN  <<119, 105, 110, 100, 111, 119, 46, 109, 110, 115, 118, 50, 40, 39>> (* window.mnsv2(' *) \o sign_str_escaped \o <<39, 44, 32, 39>> (* ', ' *) \o md5_str_escaped
        \o <<39, 41>> (* ') *)

\* call_mnsv2 returning result as it is, without the "if result else"
CallMnsv2NoDefault(answer) ==
    IF answer.kind = "raise" THEN StrV(<<>>) ELSE answer.val

\* call_mnsv2 once page.evaluate has answered: result if result else ""
call_mnsv2(answer) ==
    IF answer.kind = "raise" THEN StrV(<<>>)
    ELSE IF Truthy(answer.val) THEN answer.val
    ELSE StrV(<<>>)

(***************************************************************************)
(* The three parts of the state at rest                                    *)
(***************************************************************************)
SignIdle ==
    /\ sw_pc = "idle"
    /\ sw_method = None /\ sw_uri = None /\ sw_data = None /\ sw_a1 = None
    /\ sw_b1 = None /\ sw_sign_str = None /\ sw_md5_str = None
    /\ sw_x3_value = None /\ sw_result = None /\ sw_raised = None
    /\ evaluations = <<>> /\ clock = 0 /\ clock_reads = 0

B64Idle == b64_data = <<>> /\ b64_out = None
MrcIdle == mrc_s = <<>> /\ mrc_anything = <<>> /\ mrc_t = <<>> /\ mrc_out = None
CoIdle  == co_calls = <<>> /\ co_clock = 0 /\ co_random = <<>> /\ co_tables = None
CrIdle ==
    /\ cr_config = None /\ cr_main = None /\ cr_queue = None
    /\ cr_worker = None /\ cr_signs = <<>>

CmIdle ==
    /\ cm_sign_str = <<>> /\ cm_md5_str = <<>> /\ cm_expr = None

RqIdle ==
    /\ rq_call = None /\ rq_pc = "idle" /\ rq_i = 0 /\ rq_headers = None
    /\ rq_attempts = <<>> /\ rq_evaluations = <<>> /\ rq_clock = 0 /\ rq_result = None

(***************************************************************************)
(* The requests, the page and the clock of the model                       *)
(***************************************************************************)
\* milliseconds the clock may advance during one call
MaxTick == 1

\* time.time() when the call starts, as whole seconds and milliseconds
ClockStart == [sec |-> 1762214400, ms |-> 999]

\* str(int(time.time() * 1000)) after ticks milliseconds
NowMillisStr(ticks) ==
    LET total == ClockStart.ms + ticks
    IN  Dec(ClockStart.sec + (total \div 1000)) \o DecPad(total % 1000, 3)

MethodPOST == <<80, 79, 83, 84>> (* POST *)
MethodGET  == <<71, 69, 84>> (* GET *)
MethodPost == <<112, 111, 115, 116>> (* post *)

UriSearch == <<47, 97, 112, 105, 47, 115, 110, 115, 47, 119, 101, 98, 47, 118, 49, 47, 115, 101, 97, 114, 99, 104, 47, 110, 111, 116, 101, 115>> (* /api/sns/web/v1/search/notes *)
UriFeed   == <<47, 97, 112, 105, 47, 115, 110, 115, 47, 119, 101, 98, 47, 118, 49, 47, 102, 101, 101, 100>> (* /api/sns/web/v1/feed *)

\* {"keyword": "测试", "page": 1}
BodySearch ==
    DictV(<< <<<<107, 101, 121, 119, 111, 114, 100>> (* keyword *), StrV(<<27979, 35797>>)>>, <<<<112, 97, 103, 101>> (* page *), IntV(1)>> >>)

\* {"sort": "a b/c", "id": "q\"~", "ok": True}: keys out of alphabetical order
BodyUnsorted ==
    DictV(<< <<<<115, 111, 114, 116>> (* sort *), StrV(<<97, 32, 98, 47, 99>> (* a b/c *))>>,
             <<<<105, 100>> (* id *), StrV(<<113, 34, 126>> (* q"~ *))>>,
             <<<<111, 107>> (* ok *), BoolV(TRUE)>> >>)

\* the body of get_note_detail (src/xhs_crawler.py:328-334), shortened
BodyFeed ==
    DictV(<< <<<<115, 111, 117, 114, 99, 101, 95, 110, 111, 116, 101, 95, 105, 100>> (* source_note_id *), StrV(<<54, 53, 102, 48>> (* 65f0 *))>>,
             <<<<105, 109, 97, 103, 101, 95, 102, 111, 114, 109, 97, 116, 115>> (* image_formats *), ListV(<<StrV(<<106, 112, 103>> (* jpg *)), StrV(<<119, 101, 98, 112>> (* webp *))>>)>>,
             <<<<101, 120, 116, 114, 97>> (* extra *), DictV(<< <<<<110, 101, 101, 100, 95, 98, 111, 100, 121, 95, 116, 111, 112, 105, 99>> (* need_body_topic *), StrV(<<49>> (* 1 *))>> >>)>> >>)

\* bodies whose mapping values are scalars
FlatBodies ==
    { None,
      StrV(<<>>),
      StrV(<<97, 61, 49, 38, 98, 61, 50>> (* a=1&b=2 *)),
      StrV(<<105, 116, 39, 115, 32, 97, 32, 92, 10>>),
      DictV(<<>>),
      BodySearch,
      BodyUnsorted,
      ListV(<<>>),
      ListV(<<IntV(1), StrV(<<120>> (* x *))>>) }

\* the cookie a1 (src/xhs_crawler.py:302), present or absent
A1Cookie == <<49, 56, 99, 50, 102, 48, 97, 49>> (* 18c2f0a1 *)

\* the calls of the model: every flat body with both methods, the nested
\* body, the lower-case method, the other uri and the absent cookie once each,
\* and a number as body with both methods
Requests ==
    {[method |-> m, uri |-> UriSearch, data |-> d, a1 |-> A1Cookie] :
        m \in {MethodPOST, MethodGET}, d \in FlatBodies}
    \cup {[method |-> MethodPOST, uri |-> UriFeed, data |-> BodyFeed, a1 |-> A1Cookie],
          [method |-> MethodPost, uri |-> UriSearch, data |-> BodySearch, a1 |-> A1Cookie],
          [method |-> MethodGET, uri |-> UriFeed, data |-> None, a1 |-> A1Cookie],
          [method |-> MethodPOST, uri |-> UriFeed, data |-> DictV(<<>>), a1 |-> <<>>],
          [method |-> MethodPOST, uri |-> UriSearch, data |-> IntV(5), a1 |-> A1Cookie],
          [method |-> MethodGET, uri |-> UriSearch, data |-> IntV(5), a1 |-> A1Cookie]}

\* what page.evaluate("() => window.localStorage") may answer
LocalStorageAnswers ==
    { EvalRaise,
      EvalReturn(None),
      EvalReturn(DictV(<< <<<<97>> (* a *), StrV(<<49>> (* 1 *))>> >>)),
      EvalReturn(DictV(<< <<<<97>> (* a *), StrV(<<49>> (* 1 *))>>, <<<<98, 49>> (* b1 *), StrV(<<73, 51, 56, 114, 72, 100, 103, 115>> (* I38rHdgs *))>> >>)) }

\* what page.evaluate("window.mnsv2(...)") may answer
Mnsv2Answers ==
    { EvalRaise,
      EvalReturn(None),
      EvalReturn(StrV(<<>>)),
      EvalReturn(StrV(<<109, 110, 115, 48, 49, 48, 49, 95, 81, 50, 118, 109>> (* mns0101_Q2vm *))) }

(***************************************************************************)
(* src/xhs_sign_utils.py:198-227, sign_with_playwright as a coroutine.     *)
(* Each action runs the code from one suspension to the next.              *)
(***************************************************************************)
Init ==
    /\ sw_pc = "start"
    /\ \E r \in Requests :
          /\ sw_method = r.method
          /\ sw_uri = r.uri
          /\ sw_data = r.data
          /\ sw_a1 = r.a1
    /\ sw_b1 = None /\ sw_sign_str = None /\ sw_md5_str = None
    /\ sw_x3_value = None /\ sw_result = None /\ sw_raised = None
    /\ evaluations = <<>> /\ clock = 0 /\ clock_reads = 0
    /\ B64Idle /\ MrcIdle /\ CoIdle /\ CrIdle /\ CmIdle /\ RqIdle

\* the system clock advances while the call is in progress
Tick ==
    /\ sw_pc \in {"start", "await_localstorage", "await_mnsv2"}
    /\ clock < MaxTick
    /\ clock' = clock + 1
    /\ UNCHANGED <<sw_pc, sw_method, sw_uri, sw_data, sw_a1, sw_b1, sw_sign_str,
                   sw_md5_str, sw_x3_value, sw_result, sw_raised, evaluations,
                   clock_reads, b64Vars, mrcVars, coVars, crVars, cmVars, rqVars>>

\* a signer without the read of local storage: b1 = "" and the call runs from
\* line 214 to the await inside call_mnsv2, its one evaluation
SignCallWithoutRead ==
    /\ sw_pc = "start"
    /\ LET sign_str == _build_sign_string(sw_uri, sw_data, sw_method)
           md5_str  == _md5_hex(sign_str)
       IN  /\ sw_b1' = <<>>
           /\ sw_sign_str' = sign_str
           /\ sw_md5_str' = md5_str
           /\ evaluations' = <<[expr |-> Mnsv2Expr(sign_str, md5_str), answer |-> None]>>
    /\ sw_pc' = "await_mnsv2"
    /\ UNCHANGED <<sw_method, sw_uri, sw_data, sw_a1, sw_x3_value, sw_result,
                   sw_raised, clock, clock_reads, b64Vars, mrcVars, coVars, crVars, cmVars, rqVars>>

\* line 212 to the await inside get_b1_from_localstorage (line 182)
SignCall ==
    /\ sw_pc = "start"
    /\ evaluations' = Append(evaluations, [expr |-> LocalStorageExpr, answer |-> None])
    /\ sw_pc' = "await_localstorage"
    /\ UNCHANGED <<sw_method, sw_uri, sw_data, sw_a1, sw_b1, sw_sign_str, sw_md5_str,
                   sw_x3_value, sw_result, sw_raised, clock, clock_reads,
                   b64Vars, mrcVars, coVars, crVars, cmVars, rqVars>>

\* the page answers; lines 183-186 and 212-216 to the await inside call_mnsv2
\* (line 193)
LocalStorageAnswer ==
    /\ sw_pc = "await_localstorage"
    /\ \E answer \in LocalStorageAnswers :
          LET sign_str == _build_sign_string(sw_uri, sw_data, sw_method)
              md5_str  == _md5_hex(sign_str)
          IN  /\ sw_b1' = get_b1_from_localstorage(answer)
              /\ sw_sign_str' = sign_str
              /\ sw_md5_str' = md5_str
              /\ evaluations' =
                    Append([evaluations EXCEPT ![Len(evaluations)].answer = answer],
                           [expr |-> Mnsv2Expr(sign_str, md5_str), answer |-> None])
    /\ sw_pc' = "await_mnsv2"
    /\ UNCHANGED <<sw_method, sw_uri, sw_data, sw_a1, sw_x3_value, sw_result,
                   sw_raised, clock, clock_reads, b64Vars, mrcVars, coVars, crVars, cmVars, rqVars>>

\* a signer that reads the clock a second time, one millisecond later, for
\* the x_t handed to _build_xs_common
Mnsv2ReturnTwoReads(answer, stream) ==
    LET x3_value  == call_mnsv2(answer)
        data_type == IF sw_data.t \in {"dict", "list"}
                     THEN <<111, 98, 106, 101, 99, 116>> (* object *) ELSE <<115, 116, 114, 105, 110, 103>> (* string *)
        x_s       == _build_xs_payload(x3_value, data_type)
        x_t       == NowMillisStr(clock)
        x_t_again == NowMillisStr(clock + 1)
        common    == _build_xs_common(sw_a1, sw_b1, x_s, x_t_again)
    IN  /\ sw_x3_value' = x3_value
        /\ evaluations' = [evaluations EXCEPT ![Len(evaluations)].answer = answer]
        /\ IF common.ok
           THEN /\ sw_result' =
                      DictV(<< <<<<120, 45, 115>> (* x-s *), StrV(x_s)>>,
                               <<<<120, 45, 116>> (* x-t *), StrV(x_t)>>,
                               <<<<120, 45, 115, 45, 99, 111, 109, 109, 111, 110>> (* x-s-common *), StrV(common.val)>>,
                               <<<<120, 45, 98, 51, 45, 116, 114, 97, 99, 101, 105, 100>> (* x-b3-traceid *), StrV(get_trace_id(stream))>> >>)
                /\ sw_raised' = sw_raised
                /\ sw_pc' = "done"
           ELSE /\ sw_raised' = common.exc
                /\ sw_result' = sw_result
                /\ sw_pc' = "raised"
        /\ clock_reads' = clock_reads + 2
        /\ UNCHANGED <<sw_method, sw_uri, sw_data, sw_a1, sw_b1, sw_sign_str,
                       sw_md5_str, clock, b64Vars, mrcVars, coVars, crVars, cmVars, rqVars>>

\* lines 194-196 and 216-227: the coroutine resumes with the answer of the page
\* and runs to its return
Mnsv2Return(answer, stream) ==
    LET x3_value  == call_mnsv2(answer)
        data_type == IF sw_data.t \in {"dict", "list"}
                     THEN <<111, 98, 106, 101, 99, 116>> (* object *) ELSE <<115, 116, 114, 105, 110, 103>> (* string *)
        x_s       == _build_xs_payload(x3_value, data_type)
        x_t       == NowMillisStr(clock)
        common    == _build_xs_common(sw_a1, sw_b1, x_s, x_t)
    IN  /\ sw_x3_value' = x3_value
        /\ evaluations' = [evaluations EXCEPT ![Len(evaluations)].answer = answer]
        /\ IF common.ok
           THEN /\ sw_result' =
                      DictV(<< <<<<120, 45, 115>> (* x-s *), StrV(x_s)>>,
                               <<<<120, 45, 116>> (* x-t *), StrV(x_t)>>,
                               <<<<120, 45, 115, 45, 99, 111, 109, 109, 111, 110>> (* x-s-common *), StrV(common.val)>>,
                               <<<<120, 45, 98, 51, 45, 116, 114, 97, 99, 101, 105, 100>> (* x-b3-traceid *), StrV(get_trace_id(stream))>> >>)
                /\ sw_raised' = sw_raised
                /\ sw_pc' = "done"
           ELSE /\ sw_raised' = common.exc
                /\ sw_result' = sw_result
                /\ sw_pc' = "raised"
        /\ clock_reads' = clock_reads + 1
        /\ UNCHANGED <<sw_method, sw_uri, sw_data, sw_a1, sw_b1, sw_sign_str,
                       sw_md5_str, clock, b64Vars, mrcVars, coVars, crVars, cmVars, rqVars>>

\* a signer that evaluates window.mnsv2 again when the evaluation raised or
\* returned nothing, up to two more times
Mnsv2AnswerRetrying ==
    /\ sw_pc = "await_mnsv2"
    /\ \E answer \in Mnsv2Answers, stream \in 1..TraceStreams :
          IF (answer.kind = "raise" \/ ~Truthy(answer.val)) /\ Len(evaluations) < 4
          THEN /\ evaluations' =
                     Append([evaluations EXCEPT ![Len(evaluations)].answer = answer],
                            [expr |-> evaluations[Len(evaluations)].expr, answer |-> None])
               /\ UNCHANGED <<sw_pc, sw_method, sw_uri, sw_data, sw_a1, sw_b1,
                              sw_sign_str, sw_md5_str, sw_x3_value, sw_result,
                              sw_raised, clock, clock_reads, b64Vars, mrcVars, coVars, crVars, cmVars, rqVars>>
          ELSE Mnsv2Return(answer, stream)

\* the page answers the evaluation of window.mnsv2
Mnsv2Answer ==
    /\ sw_pc = "await_mnsv2"
    /\ \E answer \in Mnsv2Answers, stream \in 1..TraceStreams :
          Mnsv2Return(answer, stream)

Next == Tick \/ SignCall \/ LocalStorageAnswer \/ Mnsv2Answer

Spec == Init /\ [][Next]_vars

(***************************************************************************)
(* Two calls of sign_with_playwright on one page, interleaved at their     *)
(* awaits.  Each coroutine has its own frame (its arguments and locals);   *)
(* the page, the clock, the random generator and the tables of the module  *)
(* are shared.                                                             *)
(***************************************************************************)
Callers == {"first", "second"}

\* src/xhs_sign_utils.py:13-58: the module's globals once it is imported.
\* The functions above read them; the source has no statement that assigns to
\* them or to an item of them.
ModuleTables == [CRC32_TABLE |-> CRC32_TABLE, BASE64_CHARS |-> BASE64_CHARS]

\* the request of each call: the two calls differ in every argument
InterleavedRequests ==
    [c \in Callers |->
        IF c = "first"
        THEN [method |-> MethodPOST, uri |-> UriSearch, data |-> BodySearch, a1 |-> A1Cookie]
        ELSE [method |-> MethodGET, uri |-> UriFeed, data |-> StrV(<<97, 61, 49, 38, 98, 61, 50>> (* a=1&b=2 *)), a1 |-> <<>>]]

\* answers of the page that differ in the b1 and in the token they give
InterleavedLocalStorageAnswers ==
    { EvalRaise,
      EvalReturn(DictV(<< <<<<98, 49>> (* b1 *), StrV(<<73, 51, 56, 114, 72, 100, 103, 115>> (* I38rHdgs *))>> >>)) }

InterleavedMnsv2Answers ==
    { EvalReturn(StrV(<<>>)),
      EvalReturn(StrV(<<109, 110, 115, 48, 49, 48, 49, 95, 81, 50, 118, 109>> (* mns0101_Q2vm *))) }

\* the frame of a call that has not run yet
NewFrame(r) ==
    [pc |-> "start", method |-> r.method, uri |-> r.uri, data |-> r.data, a1 |-> r.a1,
     ls_answer |-> None, b1 |-> None, sign_str |-> None, md5_str |-> None,
     mnsv2_answer |-> None, x3_value |-> None, result |-> None]

\* lines 212-225 run in one piece: x-s, x-t and x-s-common of a call with the
\* given arguments, the given answers of the page and the clock read after
\* ticks milliseconds
SignAlone(r, ls_answer, mnsv2_answer, ticks) ==
    LET b1        == get_b1_from_localstorage(ls_answer)
        x3_value  == call_mnsv2(mnsv2_answer)
        data_type == IF r.data.t \in {"dict", "list"}
                     THEN <<111, 98, 106, 101, 99, 116>> (* object *) ELSE <<115, 116, 114, 105, 110, 103>> (* string *)
        x_s       == _build_xs_payload(x3_value, data_type)
        x_t       == NowMillisStr(ticks)
    IN  DictV(<< <<<<120, 45, 115>> (* x-s *), StrV(x_s)>>,
                 <<<<120, 45, 116>> (* x-t *), StrV(x_t)>>,
                 <<<<120, 45, 115, 45, 99, 111, 109, 109, 111, 110>> (* x-s-common *), StrV(_build_xs_common(r.a1, b1, x_s, x_t).val)>> >>)

InitInterleaved ==
    /\ co_calls = [c \in Callers |-> NewFrame(InterleavedRequests[c])]
    /\ co_clock = 0
    /\ co_random = <<>>
    /\ co_tables = ModuleTables
    /\ SignIdle /\ B64Idle /\ MrcIdle /\ CrIdle /\ CmIdle /\ RqIdle

\* the system clock advances while a call is in progress
TickInterleaved ==
    /\ \E c \in Callers : co_calls[c].pc \in {"start", "await_localstorage", "await_mnsv2"}
    /\ co_clock < MaxTick
    /\ co_clock' = co_clock + 1
    /\ UNCHANGED <<co_calls, co_random, co_tables, signVars, b64Vars, mrcVars, crVars, cmVars, rqVars>>

\* call c runs from line 212 to the await of line 182
StartCall(c) ==
    /\ co_calls[c].pc = "start"
    /\ co_calls' = [co_calls EXCEPT ![c].pc = "await_localstorage"]
    /\ UNCHANGED <<co_clock, co_random, co_tables, signVars, b64Vars, mrcVars, crVars, cmVars, rqVars>>

\* a signer that keeps b1 in a variable of the module: the answer to one
\* call's read of local storage replaces the b1 of every call
AnswerLocalStorageShared(c) ==
    /\ co_calls[c].pc = "await_localstorage"
    /\ \E answer \in InterleavedLocalStorageAnswers :
          LET sign_str == _build_sign_string(co_calls[c].uri, co_calls[c].data,
                                             co_calls[c].method)
          IN  co_calls' =
                 [d \in Callers |->
                     IF d = c
                     THEN [co_calls[c] EXCEPT
                              !.ls_answer = answer,
                              !.b1 = get_b1_from_localstorage(answer),
                              !.sign_str = sign_str,
                              !.md5_str = _md5_hex(sign_str),
                              !.pc = "await_mnsv2"]
                     ELSE [co_calls[d] EXCEPT !.b1 = get_b1_from_localstorage(answer)]]
    /\ UNCHANGED <<co_clock, co_random, co_tables, signVars, b64Vars, mrcVars, crVars, cmVars, rqVars>>

\* the page answers call c's read of local storage; lines 183-186 and 212-216
\* to the await of line 193
AnswerLocalStorage(c) ==
    /\ co_calls[c].pc = "await_localstorage"
    /\ \E answer \in InterleavedLocalStorageAnswers :
          LET sign_str == _build_sign_string(co_calls[c].uri, co_calls[c].data,
                                             co_calls[c].method)
          IN  co_calls' = [co_calls EXCEPT
                              ![c].ls_answer = answer,
                              ![c].b1 = get_b1_from_localstorage(answer),
                              ![c].sign_str = sign_str,
                              ![c].md5_str = _md5_hex(sign_str),
                              ![c].pc = "await_mnsv2"]
    /\ UNCHANGED <<co_clock, co_random, co_tables, signVars, b64Vars, mrcVars, crVars, cmVars, rqVars>>

\* the page answers call c's evaluation of window.mnsv2; lines 194-196 and
\* 216-227, with the 16 draws of get_trace_id taken from the generator
AnswerMnsv2(c) ==
    /\ co_calls[c].pc = "await_mnsv2"
    /\ \E answer \in InterleavedMnsv2Answers :
          LET frame     == co_calls[c]
              x3_value  == call_mnsv2(answer)
              data_type == IF frame.data.t \in {"dict", "list"}
                           THEN <<111, 98, 106, 101, 99, 116>> (* object *) ELSE <<115, 116, 114, 105, 110, 103>> (* string *)
              x_s       == _build_xs_payload(x3_value, data_type)
              x_t       == NowMillisStr(co_clock)
              common    == _build_xs_common(frame.a1, frame.b1, x_s, x_t)
          IN  IF common.ok
              THEN \E stream \in 1..TraceStreams :
                      /\ co_calls' = [co_calls EXCEPT
                            ![c].mnsv2_answer = answer,
                            ![c].x3_value = x3_value,
                            ![c].result =
                                DictV(<< <<<<120, 45, 115>> (* x-s *), StrV(x_s)>>,
                                         <<<<120, 45, 116>> (* x-t *), StrV(x_t)>>,
                                         <<<<120, 45, 115, 45, 99, 111, 109, 109, 111, 110>> (* x-s-common *), StrV(common.val)>>,
                                         <<<<120, 45, 98, 51, 45, 116, 114, 97, 99, 101, 105, 100>> (* x-b3-traceid *), StrV(get_trace_id(stream))>> >>),
                            ![c].pc = "done"]
                      /\ co_random' = co_random \o get_trace_id(stream)
              ELSE /\ co_calls' = [co_calls EXCEPT
                            ![c].mnsv2_answer = answer,
                            ![c].x3_value = x3_value,
                            ![c].pc = "raised"]
                   /\ co_random' = co_random
    /\ UNCHANGED <<co_clock, co_tables, signVars, b64Vars, mrcVars, crVars, cmVars, rqVars>>

NextInterleaved ==
    \/ TickInterleaved
    \/ \E c \in Callers : StartCall(c)
    \/ \E c \in Callers : AnswerLocalStorage(c)
    \/ \E c \in Callers : AnswerMnsv2(c)

SpecInterleaved == InitInterleaved /\ [][NextInterleaved]_vars

(***************************************************************************)
(* The callers of the signer: XhsCrawler (src/xhs_crawler.py) with its     *)
(* Visualizer, and XhsUrlCrawler (src/xhs_url_crawler.py).  Each task is   *)
(* a coroutine whose pc names the await at which it is suspended; an       *)
(* action runs a task from one await to the next.  The retry loop of       *)
(* _request and the downloads of one note are each one suspension: the     *)
(* task does nothing but wait for the network in them.  Keywords, urls and *)
(* display actions are named by TLA+ strings.                              *)
(***************************************************************************)
\* largest max_notes_count given to XhsCrawler
MaxNotesCount == 1
\* most items in one search response
MaxItems == 2
\* pages of results the server has for a keyword
MaxPages == 2

\* self.keywords
Keywords == <<"kw1", "kw2">>

\* the urls handed to process_urls; _extract_note_id finds no id in the second
Urls == <<"explore/65f0", "about", "explore/65f1">>

\* what the search API may answer for a page: _request raises, or returns data
\* with items and has_more.  An item is a note with id and xsec_token, or
\* something the loop skips (another model_type, not the display_id, no token).
SearchResponses(page_num) ==
    {[ok |-> FALSE]}
    \cup {[ok |-> TRUE, items |-> it, has_more |-> h] :
             it \in SeqUpTo({"note", "other"}, MaxItems),
             h \in (IF page_num < MaxPages THEN BOOLEAN ELSE {FALSE})}

\* asyncio.Queue.put_nowait: the item is queued and counted as unfinished;
\* puts keeps every action ever put, in order
Put(q, action) ==
    [items |-> Append(q.items, action), unfinished |-> q.unfinished + 1,
     puts |-> Append(q.puts, action)]

\* the state of a crawler that has logged in, before search() or process_urls()
\* images is what is left of the image_list of the note in hand;
\* annotated_notes is the number of notes of the keyword in hand that have a
\* record in annotations (a record's key begins with the note_id, and the
\* notes of a keyword are taken to have distinct ids)
NewMain ==
    [pc |-> "start", k |-> 0, page_num |-> 0, items |-> <<>>, has_more |-> FALSE,
     processed_notes_count |-> 0, images |-> <<>>, note_success |-> FALSE,
     annotated_notes |-> 0]

RECURSIVE KeywordLoop(_, _)
RECURSIVE WhileTop(_, _)
\* src/xhs_crawler.py:378-390: the next keyword, or the end of search()
KeywordLoop(m, q) ==
    IF m.k >= Len(Keywords)
    THEN [main |-> [m EXCEPT !.pc = "search_done"], queue |-> q]
    ELSE WhileTop([m EXCEPT !.k = m.k + 1, !.processed_notes_count = 0,
                            !.page_num = 1, !.items = <<>>, !.has_more = FALSE,
                            !.images = <<>>, !.note_success = FALSE,
                            !.annotated_notes = 0],
                  IF cr_config.display_mode
                  THEN Put(q, [show |-> "search_page", of |-> Keywords[m.k + 1]])
                  ELSE q)

\* the top of "while True" without the test of processed_notes_count
WhileTopUnchecked(m, q) ==
    [main |-> [m EXCEPT !.pc = "page_sleep"], queue |-> q]

\* src/xhs_crawler.py:392-400: the top of "while True", up to the sleep
WhileTop(m, q) ==
    IF m.processed_notes_count >= cr_config.max_notes_count
    THEN KeywordLoop(m, q)
    ELSE [main |-> [m EXCEPT !.pc = "page_sleep"], queue |-> q]

\* src/xhs_crawler.py:658-665: after the loop over the items
\* (the items a break leaves behind are not read again)
AfterItems(m, q) ==
    LET left == [m EXCEPT !.items = <<>>]
    IN  IF cr_config.display_mode THEN KeywordLoop(left, q)
        ELSE IF ~m.has_more THEN KeywordLoop(left, q)
        ELSE WhileTop([left EXCEPT !.page_num = m.page_num + 1], q)

\* src/xhs_crawler.py:434-466: the loop over the items, up to the sleep before
\* the detail of the next note
RECURSIVE ItemsLoop(_, _)
ItemsLoop(m, q) ==
    IF m.items = <<>> THEN AfterItems(m, q)
    ELSE LET rest == [m EXCEPT !.items = Tail(m.items)]
         IN  IF Head(m.items) = "other" THEN ItemsLoop(rest, q)
             ELSE IF m.processed_notes_count >= cr_config.max_notes_count
             THEN AfterItems(rest, q)
             ELSE [main  |-> [rest EXCEPT !.pc = "detail_sleep"],
                   queue |-> IF cr_config.display_mode
                             THEN Put(q, [show |-> "note_detail", of |-> Keywords[m.k]])
                             ELSE q]

\* the loop leaves the note in hand: image_list and note_success are not read
\* again before the next note assigns them
LeaveNote(m) == [m EXCEPT !.images = <<>>, !.note_success = FALSE]

\* src/xhs_crawler.py:646-654: after the loop over the images of a note
NoteDone(m, q) ==
    IF cr_config.display_mode /\ m.note_success THEN AfterItems(LeaveNote(m), q)
    ELSE IF m.note_success
    THEN LET counted == [m EXCEPT !.processed_notes_count = m.processed_notes_count + 1]
         IN  IF counted.processed_notes_count >= cr_config.max_notes_count
             THEN AfterItems(LeaveNote(counted), q)
             ELSE ItemsLoop(LeaveNote(counted), q)
    ELSE ItemsLoop(LeaveNote(m), q)

\* src/xhs_crawler.py:597-612: the loop over image_list, up to the download
\* of the next image that is large enough and has a url
RECURSIVE ImageLoop(_, _)
ImageLoop(m, q) ==
    IF m.images = <<>> THEN NoteDone(m, q)
    ELSE IF Head(m.images) = "small" THEN ImageLoop([m EXCEPT !.images = Tail(m.images)], q)
    ELSE [main |-> [m EXCEPT !.pc = "download"], queue |-> q]

\* src/xhs_url_crawler.py:152-163: the next url with a note id, up to page.goto
RECURSIVE UrlLoop(_)
UrlLoop(m) ==
    IF m.k >= Len(Urls) THEN [m EXCEPT !.pc = "closed"]
    ELSE IF Urls[m.k + 1] = "about" THEN UrlLoop([m EXCEPT !.k = m.k + 1])
    ELSE [m EXCEPT !.k = m.k + 1, !.pc = "goto"]

\* sign_with_playwright(self.page, uri, ...) is called: the call runs to its
\* first await
SignStarted(signs, uri) == Append(signs, [uri |-> uri, pc |-> "await_localstorage"])

\* the last call of sign_with_playwright on the crawler's page
LastSign == cr_signs[Len(cr_signs)]

\* src/xhs_crawler.py:696-701: the main task is suspended at an await, so that
\* the event loop can run the worker; between the return of search() and the
\* test of the queue in stop() it is not
MainSuspended == cr_main.pc # "search_done"

\* src/xhs_crawler.py:57: the worker has been woken by put_nowait and has not
\* run yet.  The event loop runs it before it resumes the main task, whose
\* awaits all end later than the put.
WorkerReady == cr_worker.pc = "get" /\ ~cr_worker.cancelling /\ cr_queue.items # <<>>

\* XhsCrawler.start (src/xhs_crawler.py:676-696) or XhsUrlCrawler.start
\* (src/xhs_url_crawler.py:300-310) after the login: with display_mode the
\* Visualizer has its own page and its worker waits on the empty queue
InitCrawler ==
    /\ cr_config \in
          {[kind |-> "XhsCrawler", display_mode |-> d, max_notes_count |-> n] :
              d \in BOOLEAN, n \in 0..MaxNotesCount}
          \cup {[kind |-> "XhsUrlCrawler", display_mode |-> FALSE, max_notes_count |-> 0]}
    /\ cr_main = NewMain
    /\ cr_queue = [items |-> <<>>, unfinished |-> 0, puts |-> <<>>]
    /\ cr_worker = [pc |-> IF cr_config.display_mode THEN "get" ELSE "none",
                    cancelling |-> FALSE, action |-> None, log |-> <<>>]
    /\ cr_signs = <<>>
    /\ SignIdle /\ B64Idle /\ MrcIdle /\ CoIdle /\ CmIdle /\ RqIdle

\* src/xhs_crawler.py:696, 371-400: search() is entered
Search ==
    /\ cr_config.kind = "XhsCrawler"
    /\ cr_main.pc = "start"
    /\ LET next == KeywordLoop(cr_main, cr_queue)
       IN  cr_main' = next.main /\ cr_queue' = next.queue
    /\ UNCHANGED <<cr_config, cr_worker, cr_signs, signVars, b64Vars, mrcVars, coVars, cmVars, rqVars>>

\* src/xhs_crawler.py:400-416, 302-304: the sleep ends, the search request is
\* built and its signing call starts
PageSleepDone ==
    /\ ~WorkerReady
    /\ cr_main.pc = "page_sleep"
    /\ cr_main' = [cr_main EXCEPT !.pc = "search_sign"]
    /\ cr_signs' = SignStarted(cr_signs, UriSearch)
    /\ UNCHANGED <<cr_config, cr_queue, cr_worker, signVars, b64Vars, mrcVars, coVars, cmVars, rqVars>>

\* src/xhs_sign_utils.py:182-193: the page answers the read of local storage
\* and the signing call goes on to the evaluation of window.mnsv2
SignLocalStorageAnswered ==
    /\ ~WorkerReady
    /\ cr_signs # <<>>
    /\ LastSign.pc = "await_localstorage"
    /\ cr_signs' = [cr_signs EXCEPT ![Len(cr_signs)].pc = "await_mnsv2"]
    /\ UNCHANGED <<cr_config, cr_main, cr_queue, cr_worker, signVars, b64Vars, mrcVars, coVars, cmVars, rqVars>>

\* src/xhs_sign_utils.py:193-227, src/xhs_crawler.py:304-314, 340-343,
\* 417-418: the page answers, the signing call returns its headers and the
\* caller goes on to _request
SignMnsv2Answered ==
    /\ ~WorkerReady
    /\ cr_signs # <<>>
    /\ LastSign.pc = "await_mnsv2"
    /\ cr_signs' = [cr_signs EXCEPT ![Len(cr_signs)].pc = "done"]
    /\ cr_main' = [cr_main EXCEPT
                      !.pc = IF cr_main.pc = "search_sign"
                             THEN "search_request" ELSE "detail_request"]
    /\ UNCHANGED <<cr_config, cr_queue, cr_worker, signVars, b64Vars, mrcVars, coVars, cmVars, rqVars>>

\* src/xhs_crawler.py:418-466: _request returns or raises for a search page
SearchResponse ==
    /\ ~WorkerReady
    /\ cr_main.pc = "search_request"
    /\ \E r \in SearchResponses(cr_main.page_num) :
          LET next == IF ~r.ok THEN KeywordLoop(cr_main, cr_queue)
                      ELSE IF r.items = <<>> THEN KeywordLoop(cr_main, cr_queue)
                      ELSE ItemsLoop([cr_main EXCEPT !.items = r.items,
                                                     !.has_more = r.has_more],
                                     cr_queue)
          IN  cr_main' = next.main /\ cr_queue' = next.queue
    /\ UNCHANGED <<cr_config, cr_worker, cr_signs, signVars, b64Vars, mrcVars, coVars, cmVars, rqVars>>

\* src/xhs_crawler.py:466-470, 327-339: the sleep ends, get_note_detail builds
\* its request and its signing call starts
DetailSleepDone ==
    /\ ~WorkerReady
    /\ cr_main.pc = "detail_sleep"
    /\ cr_main' = [cr_main EXCEPT !.pc = "detail_sign"]
    /\ cr_signs' = SignStarted(cr_signs, UriFeed)
    /\ UNCHANGED <<cr_config, cr_queue, cr_worker, signVars, b64Vars, mrcVars, coVars, cmVars, rqVars>>

\* the image_list of a note, each image too small or good for download; a
\* note that the filters of lines 483-595 drop goes the way of the empty list
ImageLists == {<<>>, <<"good">>, <<"small", "good">>, <<"good", "good">>}

\* src/xhs_crawler.py:343-358, 470-612 and src/xhs_url_crawler.py:107-121,
\* 189-192: get_note_detail returns the note, or None; the note is parsed and
\* the loop over its images runs to the first download
DetailResponse ==
    /\ ~WorkerReady
    /\ cr_main.pc = "detail_request"
    /\ \E found \in BOOLEAN, image_list \in ImageLists :
          IF cr_config.kind = "XhsCrawler"
          THEN LET next == IF found
                           THEN ImageLoop([cr_main EXCEPT !.images = image_list,
                                                          !.note_success = FALSE],
                                          cr_queue)
                           ELSE ItemsLoop(LeaveNote(cr_main), cr_queue)
               IN  cr_main' = next.main /\ cr_queue' = next.queue
          ELSE /\ cr_main' = IF found THEN [cr_main EXCEPT !.pc = "download"]
                             ELSE UrlLoop(cr_main)
               /\ cr_queue' = cr_queue
    /\ UNCHANGED <<cr_config, cr_worker, cr_signs, signVars, b64Vars, mrcVars, coVars, cmVars, rqVars>>

\* src/xhs_crawler.py:613-665: the download of an image returns; the image is
\* written and recorded in annotations and the loop goes on, or an exception
\* (of the download or of the write) leaves the note for the next item.
\* src/xhs_url_crawler.py:194-275: the images of the note are downloaded,
\* with or without success.
DownloadDone ==
    /\ ~WorkerReady
    /\ cr_main.pc = "download"
    /\ \E note_success \in BOOLEAN :
          IF cr_config.kind = "XhsCrawler"
          THEN LET next == IF note_success
                           THEN ImageLoop([cr_main EXCEPT
                                              !.images = Tail(cr_main.images),
                                              !.note_success = TRUE,
                                              !.annotated_notes =
                                                  IF cr_main.note_success
                                                  THEN cr_main.annotated_notes
                                                  ELSE cr_main.annotated_notes + 1],
                                          cr_queue)
                           ELSE ItemsLoop(LeaveNote(cr_main), cr_queue)
               IN  cr_main' = next.main /\ cr_queue' = next.queue
          ELSE /\ cr_main' = IF note_success THEN [cr_main EXCEPT !.pc = "url_pause"]
                             ELSE UrlLoop(cr_main)
               /\ cr_queue' = cr_queue
    /\ UNCHANGED <<cr_config, cr_worker, cr_signs, signVars, b64Vars, mrcVars, coVars, cmVars, rqVars>>

\* src/xhs_crawler.py:701-704, 113-125: search() has returned; without a
\* Visualizer the browser is closed, with one stop() waits for the queue if it
\* is not empty and then cancels the worker
StopVisualizer ==
    /\ cr_main.pc = "search_done"
    /\ IF ~cr_config.display_mode
       THEN cr_main' = [cr_main EXCEPT !.pc = "closed"] /\ cr_worker' = cr_worker
       ELSE IF cr_queue.items # <<>>
       THEN cr_main' = [cr_main EXCEPT !.pc = "join"] /\ cr_worker' = cr_worker
       ELSE /\ cr_main' = [cr_main EXCEPT !.pc = "await_worker"]
            /\ cr_worker' = [cr_worker EXCEPT !.cancelling = TRUE]
    /\ UNCHANGED <<cr_config, cr_queue, cr_signs, signVars, b64Vars, mrcVars, coVars, cmVars, rqVars>>

\* src/xhs_crawler.py:122-127: queue.join() returns and the worker is cancelled
JoinDone ==
    /\ cr_main.pc = "join"
    /\ cr_queue.unfinished = 0
    /\ cr_main' = [cr_main EXCEPT !.pc = "await_worker"]
    /\ cr_worker' = [cr_worker EXCEPT !.cancelling = TRUE]
    /\ UNCHANGED <<cr_config, cr_queue, cr_signs, signVars, b64Vars, mrcVars, coVars, cmVars, rqVars>>

\* src/xhs_crawler.py:55-64, 127-132: CancelledError is raised in the worker
\* at its await; inside an action the "finally" calls task_done; stop() then
\* closes the Visualizer's page and start() the browser
WorkerCancelled ==
    /\ cr_worker.cancelling
    /\ cr_worker.pc # "cancelled"
    /\ cr_queue' = IF cr_worker.pc = "get" THEN cr_queue
                   ELSE [cr_queue EXCEPT !.unfinished = cr_queue.unfinished - 1]
    /\ cr_worker' = IF cr_worker.pc = "get" THEN [cr_worker EXCEPT !.pc = "cancelled"]
                    ELSE [cr_worker EXCEPT
                             !.pc = "cancelled", !.action = None,
                             !.log = Append(cr_worker.log, [action  |-> cr_worker.action,
                                                            outcome |-> "cancelled"])]
    /\ cr_main' = [cr_main EXCEPT !.pc = "closed"]
    /\ UNCHANGED <<cr_config, cr_signs, signVars, b64Vars, mrcVars, coVars, cmVars, rqVars>>

\* a Visualizer whose display action starts with a signing call on the
\* crawler's page
WorkerGetSigning ==
    /\ MainSuspended
    /\ cr_worker.pc = "get"
    /\ ~cr_worker.cancelling
    /\ cr_queue.items # <<>>
    /\ cr_queue' = [cr_queue EXCEPT !.items = Tail(cr_queue.items)]
    /\ cr_worker' = [cr_worker EXCEPT !.pc = "bring_to_front", !.action = Head(cr_queue.items)]
    /\ cr_signs' = SignStarted(cr_signs, UriFeed)
    /\ UNCHANGED <<cr_config, cr_main, signVars, b64Vars, mrcVars, coVars, cmVars, rqVars>>

\* src/xhs_crawler.py:57-59, 73-77 (98-101): queue.get() returns the oldest
\* action and the worker runs it to its first await, on the Visualizer's page
WorkerGet ==
    /\ MainSuspended
    /\ cr_worker.pc = "get"
    /\ ~cr_worker.cancelling
    /\ cr_queue.items # <<>>
    /\ cr_queue' = [cr_queue EXCEPT !.items = Tail(cr_queue.items)]
    /\ cr_worker' = [cr_worker EXCEPT !.pc = "bring_to_front", !.action = Head(cr_queue.items)]
    /\ UNCHANGED <<cr_config, cr_main, cr_signs, signVars, b64Vars, mrcVars, coVars, cmVars, rqVars>>

\* a worker without "try": an exception in an action leaves _worker, no
\* task_done is called and the task ends
WorkerStepUnprotected ==
    /\ MainSuspended
    /\ cr_worker.pc \in {"bring_to_front", "goto", "sleep"}
    /\ ~cr_worker.cancelling
    /\ \E raises \in BOOLEAN :
          IF raises
          THEN /\ cr_worker' = [cr_worker EXCEPT !.pc = "ended", !.action = None]
               /\ cr_queue' = cr_queue
          ELSE IF cr_worker.pc = "sleep"
          THEN /\ cr_worker' = [cr_worker EXCEPT
                                   !.pc = "get", !.action = None,
                                   !.log = Append(cr_worker.log,
                                                  [action  |-> cr_worker.action,
                                                   outcome |-> "shown"])]
               /\ cr_queue' = [cr_queue EXCEPT !.unfinished = cr_queue.unfinished - 1]
          ELSE /\ cr_worker' = [cr_worker EXCEPT
                                   !.pc = IF cr_worker.pc = "bring_to_front"
                                          THEN "goto" ELSE "sleep"]
               /\ cr_queue' = cr_queue
    /\ UNCHANGED <<cr_config, cr_main, cr_signs, signVars, b64Vars, mrcVars, coVars, cmVars, rqVars>>

\* src/xhs_crawler.py:77-85 (101-109), 60-64: an await of the action returns
\* or raises; a raise (caught and logged by the action itself) or the end of
\* the sleep ends the action, task_done is called and the worker waits on the
\* queue again
WorkerStep ==
    /\ MainSuspended
    /\ cr_worker.pc \in {"bring_to_front", "goto", "sleep"}
    /\ ~cr_worker.cancelling
    /\ \E raises \in BOOLEAN :
          IF raises \/ cr_worker.pc = "sleep"
          THEN /\ cr_worker' = [cr_worker EXCEPT
                                   !.pc = "get", !.action = None,
                                   !.log = Append(cr_worker.log,
                                                  [action  |-> cr_worker.action,
                                                   outcome |-> IF raises THEN "failed"
                                                               ELSE "shown"])]
               /\ cr_queue' = [cr_queue EXCEPT !.unfinished = cr_queue.unfinished - 1]
          ELSE /\ cr_worker' = [cr_worker EXCEPT
                                   !.pc = IF cr_worker.pc = "bring_to_front"
                                          THEN "goto" ELSE "sleep"]
               /\ cr_queue' = cr_queue
    /\ UNCHANGED <<cr_config, cr_main, cr_signs, signVars, b64Vars, mrcVars, coVars, cmVars, rqVars>>

\* src/xhs_url_crawler.py:310, 152-163: process_urls() is entered
ProcessUrls ==
    /\ cr_config.kind = "XhsUrlCrawler"
    /\ cr_main.pc = "start"
    /\ cr_main' = UrlLoop(cr_main)
    /\ UNCHANGED <<cr_config, cr_queue, cr_worker, cr_signs, signVars, b64Vars, mrcVars, coVars, cmVars, rqVars>>

\* src/xhs_url_crawler.py:163-175, 273-278: page.goto, the sleep after it and
\* the evaluation that reads xsec_token from the page return in turn; an
\* exception of goto or of the evaluation skips the url
UrlStep ==
    /\ cr_main.pc \in {"goto", "url_sleep", "token_evaluate"}
    /\ \E raises \in BOOLEAN :
          /\ cr_main' = IF raises /\ cr_main.pc # "url_sleep" THEN UrlLoop(cr_main)
                        ELSE [cr_main EXCEPT
                                 !.pc = IF cr_main.pc = "goto" THEN "url_sleep"
                                        ELSE IF cr_main.pc = "url_sleep" THEN "token_evaluate"
                                        ELSE "detail_sign"]
          /\ cr_signs' = IF ~raises /\ cr_main.pc = "token_evaluate"
                         THEN SignStarted(cr_signs, UriFeed) ELSE cr_signs
    /\ UNCHANGED <<cr_config, cr_queue, cr_worker, signVars, b64Vars, mrcVars, coVars, cmVars, rqVars>>

\* src/xhs_url_crawler.py:275: the sleep after a note ends
UrlPauseDone ==
    /\ cr_main.pc = "url_pause"
    /\ cr_main' = UrlLoop(cr_main)
    /\ UNCHANGED <<cr_config, cr_queue, cr_worker, cr_signs, signVars, b64Vars, mrcVars, coVars, cmVars, rqVars>>

NextCrawler ==
    \/ Search \/ PageSleepDone \/ SignLocalStorageAnswered \/ SignMnsv2Answered
    \/ SearchResponse \/ DetailSleepDone \/ DetailResponse \/ DownloadDone
    \/ StopVisualizer \/ JoinDone \/ WorkerCancelled \/ WorkerGet \/ WorkerStep
    \/ ProcessUrls \/ UrlStep \/ UrlPauseDone

SpecCrawler == InitCrawler /\ [][NextCrawler]_vars

(***************************************************************************)
(* src/xhs_crawler.py:250-314, 337-348, 414-426: one API call of           *)
(* XhsCrawler, from the signing of its request to the return of _request,  *)
(* and _request called on its own with any retry_count.  rq_attempts keeps *)
(* every call of client.request with the headers it sent.                  *)
(***************************************************************************)
\* largest retry_count handed to _request (the call sites use the default, 3)
MaxRetryCount == 3

\* the seconds of the sleep between two attempts: random.uniform(1, 3)
RetrySleeps == {1, 3}

\* how one attempt may end: client.request raises, raise_for_status raises,
\* the body says success false, or the body says success true
AttemptOutcomes == {"transport_error", "status_error", "not_success", "success"}

\* the calls of the model: the two call sites, and _request alone
ApiCalls ==
    {[site |-> "search", uri |-> UriSearch, data |-> BodySearch, retry_count |-> 3],
     [site |-> "get_note_detail", uri |-> UriFeed, data |-> BodyFeed, retry_count |-> 3]}
    \cup {[site |-> "_request", uri |-> UriFeed, data |-> BodyFeed, retry_count |-> n] :
             n \in 0..MaxRetryCount}

\* lines 302-314: the headers built from what sign_with_playwright returned
_get_signed_headers(signs) ==
    DictV(<< <<<<67, 111, 110, 116, 101, 110, 116, 45, 84, 121, 112, 101>> (* Content-Type *), StrV(<<97, 112, 112, 108, 105, 99, 97, 116, 105, 111, 110, 47, 106, 115, 111, 110, 59, 99, 104, 97, 114, 115, 101, 116, 61, 85, 84, 70, 45, 56>> (* application/json;charset=UTF-8 *))>>,
             <<<<85, 115, 101, 114, 45, 65, 103, 101, 110, 116>> (* User-Agent *), StrV(<<77, 111, 122, 105, 108, 108, 97, 47, 53, 46, 48>> (* Mozilla/5.0 *))>>,
             <<<<88, 45, 83>> (* X-S *), DictGet(signs, <<120, 45, 115>> (* x-s *), None)>>,
             <<<<88, 45, 84>> (* X-T *), DictGet(signs, <<120, 45, 116>> (* x-t *), None)>>,
             <<<<120, 45, 83, 45, 67, 111, 109, 109, 111, 110>> (* x-S-Common *), DictGet(signs, <<120, 45, 115, 45, 99, 111, 109, 109, 111, 110>> (* x-s-common *), None)>>,
             <<<<88, 45, 66, 51, 45, 84, 114, 97, 99, 101, 105, 100>> (* X-B3-Traceid *), DictGet(signs, <<120, 45, 98, 51, 45, 116, 114, 97, 99, 101, 105, 100>> (* x-b3-traceid *), None)>>,
             <<<<67, 111, 111, 107, 105, 101>> (* Cookie *), StrV(<<97, 49, 61>> (* a1= *) \o A1Cookie)>> >>)

\* sign_with_playwright(self.page, uri, data, a1_value, "POST") returning at
\* now seconds after the start with the given answers of the page
SignsAt(call, ls_answer, mnsv2_answer, now, stream) ==
    LET signs == SignAlone([method |-> MethodPOST, uri |-> call.uri, data |-> call.data,
                            a1 |-> A1Cookie], ls_answer, mnsv2_answer, 1000 * now)
    IN  DictV(signs.items \o << <<<<120, 45, 98, 51, 45, 116, 114, 97, 99, 101, 105, 100>> (* x-b3-traceid *), StrV(get_trace_id(stream))>> >>)

\* lines 266-269: "for i in range(retry_count)" at iteration i: the loop is
\* over, or client.request is awaited with the headers of the caller
EnterAttempt(i) ==
    IF i >= rq_call.retry_count
    THEN /\ rq_pc' = "returned"
         /\ rq_result' = [kind |-> "return", val |-> None]
         /\ rq_attempts' = rq_attempts
    ELSE /\ rq_pc' = "attempt"
         /\ rq_result' = rq_result
         /\ rq_attempts' = Append(rq_attempts, [headers |-> rq_headers', outcome |-> "awaited"])

InitRequest ==
    /\ rq_call \in ApiCalls
    /\ rq_pc = "start"
    /\ rq_i = 0
    /\ rq_headers = None
    /\ rq_attempts = <<>>
    /\ rq_evaluations = <<>>
    /\ rq_clock = 0
    /\ rq_result = None
    /\ SignIdle /\ B64Idle /\ MrcIdle /\ CoIdle /\ CrIdle /\ CmIdle

\* lines 339 or 416, 302-304: the API call asks for its headers and the
\* signing call awaits the read of local storage
ApiCall ==
    /\ rq_pc = "start"
    /\ rq_call.site # "_request"
    /\ rq_pc' = "await_localstorage"
    /\ rq_evaluations' = Append(rq_evaluations, [expr |-> "localStorage", answer |-> None,
                                                 after |-> Len(rq_attempts)])
    /\ UNCHANGED <<rq_call, rq_i, rq_headers, rq_attempts, rq_clock, rq_result,
                   signVars, b64Vars, mrcVars, coVars, crVars, cmVars>>

\* src/xhs_sign_utils.py:182-193: the signing call awaits window.mnsv2
RequestSignLocalStorage ==
    /\ rq_pc = "await_localstorage"
    /\ \E ls_answer \in InterleavedLocalStorageAnswers :
          rq_evaluations' = Append([rq_evaluations EXCEPT ![1].answer = ls_answer],
                                   [expr |-> "mnsv2", answer |-> None,
                                    after |-> Len(rq_attempts)])
    /\ rq_pc' = "await_mnsv2"
    /\ UNCHANGED <<rq_call, rq_i, rq_headers, rq_attempts, rq_clock, rq_result,
                   signVars, b64Vars, mrcVars, coVars, crVars, cmVars>>

\* src/xhs_sign_utils.py:194-227, lines 304-314 and 340-343 (417-418): the
\* signing call returns, the headers are built and _request awaits its first
\* attempt
RequestSigned ==
    /\ rq_pc = "await_mnsv2"
    /\ \E mnsv2_answer \in InterleavedMnsv2Answers, stream \in 1..TraceStreams :
          /\ rq_headers' = _get_signed_headers(
                               SignsAt(rq_call, rq_evaluations[1].answer, mnsv2_answer,
                                       rq_clock, stream))
          /\ rq_evaluations' = [rq_evaluations EXCEPT ![2].answer = mnsv2_answer]
    /\ EnterAttempt(0)
    /\ UNCHANGED <<rq_call, rq_i, rq_clock,
                   signVars, b64Vars, mrcVars, coVars, crVars, cmVars>>

\* lines 250-269: _request is called on its own, with headers of the caller
RequestAlone ==
    /\ rq_pc = "start"
    /\ rq_call.site = "_request"
    /\ rq_headers' = DictV(<< <<<<67, 111, 111, 107, 105, 101>> (* Cookie *), StrV(<<97, 49, 61>> (* a1= *) \o A1Cookie)>> >>)
    /\ EnterAttempt(0)
    /\ UNCHANGED <<rq_call, rq_i, rq_evaluations, rq_clock,
                   signVars, b64Vars, mrcVars, coVars, crVars, cmVars>>

\* lines 269-282: the attempt ends; data is returned, or the exception is
\* logged and, after the last attempt, raised, or else the sleep is awaited
AttemptDone ==
    /\ rq_pc = "attempt"
    /\ \E outcome \in AttemptOutcomes :
          /\ rq_attempts' = [rq_attempts EXCEPT ![Len(rq_attempts)].outcome = outcome]
          /\ IF outcome = "success"
             THEN /\ rq_pc' = "returned"
                  /\ rq_result' = [kind |-> "return", val |-> [data_of |-> rq_i]]
             ELSE IF rq_i = rq_call.retry_count - 1
             THEN /\ rq_pc' = "raised"
                  /\ rq_result' = [kind |-> "raise", exc |-> outcome, of |-> rq_i]
             ELSE /\ rq_pc' = "retry_sleep"
                  /\ rq_result' = rq_result
    /\ UNCHANGED <<rq_call, rq_i, rq_headers, rq_evaluations, rq_clock,
                   signVars, b64Vars, mrcVars, coVars, crVars, cmVars>>

\* a _request that asks for fresh headers before it tries again: the signer
\* runs once more, at the time of the retry
RetrySleepDoneResigning ==
    /\ rq_pc = "retry_sleep"
    /\ \E seconds \in RetrySleeps : rq_clock' = rq_clock + seconds
    /\ rq_i' = rq_i + 1
    /\ IF rq_call.site = "_request"
       THEN rq_headers' = rq_headers /\ rq_evaluations' = rq_evaluations
       ELSE /\ rq_headers' = _get_signed_headers(
                                SignsAt(rq_call, rq_evaluations[1].answer,
                                        rq_evaluations[2].answer, rq_clock', 1))
            /\ rq_evaluations' =
                  rq_evaluations
                  \o <<[expr |-> "localStorage", answer |-> rq_evaluations[1].answer,
                        after |-> Len(rq_attempts)],
                       [expr |-> "mnsv2", answer |-> rq_evaluations[2].answer,
                        after |-> Len(rq_attempts)]>>
    /\ EnterAttempt(rq_i + 1)
    /\ UNCHANGED <<rq_call, signVars, b64Vars, mrcVars, coVars, crVars, cmVars>>

\* lines 284, 266-269: the sleep ends and the next attempt is awaited
RetrySleepDone ==
    /\ rq_pc = "retry_sleep"
    /\ \E seconds \in RetrySleeps : rq_clock' = rq_clock + seconds
    /\ rq_i' = rq_i + 1
    /\ rq_headers' = rq_headers
    /\ EnterAttempt(rq_i + 1)
    /\ UNCHANGED <<rq_call, rq_evaluations,
                   signVars, b64Vars, mrcVars, coVars, crVars, cmVars>>

NextRequest ==
    \/ ApiCall \/ RequestSignLocalStorage \/ RequestSigned \/ RequestAlone
    \/ AttemptDone \/ RetrySleepDone

SpecRequest == InitRequest /\ [][NextRequest]_vars

(***************************************************************************)
(* Bounds and input sets                                                   *)
(***************************************************************************)
\* longest list of bytes handed to b64_encode
MaxBytes == 4
\* longest tail appended after a head handed to mrc
MaxTail == 2

\* bytes at the ends and in the middle of 0..255, with every sextet pattern
ByteSamples == {0, 3, 77, 128, 255}

\* 57 characters: a timestamp followed by the start of an X-S value,
\* "1762214400123XYS_2UQhPsHCH0c1PjhlHjIj2erjwjQhyoPTqBPT49pjH"
MrcText == <<49, 55, 54, 50, 50, 49, 52, 52, 48, 48, 49, 50, 51, 88, 89, 83, 95,
             50, 85, 81, 104, 80, 115, 72, 67, 72, 48, 99, 49, 80, 106, 104, 108,
             72, 106, 73, 106, 50, 101, 114, 106, 119, 106, 81, 104, 121, 111,
             80, 84, 113, 66, 80, 84, 52, 57, 112, 106>>

\* heads of 0, 1, 2, 56 and 57 characters, a 57-character head that differs
\* in its last character, and one that starts with U+6D4B
MrcHeads ==
    {Slice(MrcText, 0, l) : l \in {0, 1, 2, 56, 57}}
    \cup {Slice(MrcText, 0, 56) \o <<72>>, <<27979>> \o Slice(MrcText, 0, 56)}

\* tails: "z" repeated, or the single character U+6D4B
MrcTails == {[i \in 1..k |-> 122] : k \in 0..MaxTail} \cup {<<27979>>}

MrcStrings == {h \o x : h \in MrcHeads, x \in MrcTails}

(***************************************************************************)
(* The codec and the checksum as operations on their own                   *)
(***************************************************************************)
\* lengths of one chunk of 16383 bytes exactly, of one chunk and a rest of 2
\* bytes, of two chunks and of three chunks with a rest of 1 byte
LongLengths == {16383, 16385, 16386, 32770}

\* a list of n bytes that runs through all values and all sextets
LongData(n) == [i \in 1..n |-> (i * 37 + (i \div 256)) % 256]

InitB64 ==
    /\ b64_data \in SeqUpTo(ByteSamples, MaxBytes) \cup {LongData(n) : n \in LongLengths}
    /\ b64_out = None
    /\ SignIdle /\ MrcIdle /\ CoIdle /\ CrIdle /\ CmIdle /\ RqIdle

\* b64_out = b64_encode(b64_data)
Encode ==
    /\ b64_out = None
    /\ b64_out' = [ok |-> TRUE, val |-> b64_encode(b64_data)]
    /\ UNCHANGED <<b64_data, signVars, mrcVars, coVars, crVars, cmVars, rqVars>>

NextB64 == Encode
SpecB64 == InitB64 /\ [][NextB64]_vars

InitMrc ==
    /\ mrc_s \in MrcStrings
    /\ mrc_anything \in MrcTails
    /\ mrc_t \in MrcStrings
    /\ mrc_out = None
    /\ SignIdle /\ B64Idle /\ CoIdle /\ CrIdle /\ CmIdle /\ RqIdle

\* mrc(s), mrc(s[:57] + anything) and mrc(t)
Checksum ==
    /\ mrc_out = None
    /\ mrc_out' = [s   |-> mrc(mrc_s),
                   cat |-> mrc(Slice(mrc_s, 0, 57) \o mrc_anything),
                   t   |-> mrc(mrc_t)]
    /\ UNCHANGED <<mrc_s, mrc_anything, mrc_t, signVars, b64Vars, coVars, crVars, cmVars, rqVars>>

NextMrc == Checksum
SpecMrc == InitMrc /\ [][NextMrc]_vars

(***************************************************************************)
(* src/xhs_sign_utils.py:188-193, call_mnsv2 up to its evaluation, as an   *)
(* operation on its own                                                    *)
(***************************************************************************)
\* longest sign_str and md5_str handed to call_mnsv2
MaxArgLen == 2

\* backslash, single quote, newline and "a"
ArgChars == {92, 39, 10, 97}

InitMnsv2 ==
    /\ cm_sign_str \in SeqUpTo(ArgChars, MaxArgLen)
    /\ cm_md5_str \in SeqUpTo(ArgChars, MaxArgLen)
    /\ cm_expr = None
    /\ SignIdle /\ B64Idle /\ MrcIdle /\ CoIdle /\ CrIdle /\ RqIdle

\* lines 190-193: the expression is built and handed to page.evaluate
BuildExpression ==
    /\ cm_expr = None
    /\ cm_expr' = [text |-> Mnsv2Expr(cm_sign_str, cm_md5_str)]
    /\ UNCHANGED <<cm_sign_str, cm_md5_str, signVars, b64Vars, mrcVars, coVars, crVars, rqVars>>

NextMnsv2 == BuildExpression
SpecMnsv2 == InitMnsv2 /\ [][NextMnsv2]_vars

(***************************************************************************)
(* Properties of the sign-string and of the signing call (checked under    *)
(* Spec)                                                                   *)
(***************************************************************************)
\* the call has built its sign-string
SignStringBuilt == sw_sign_str # None

\* the request is a POST request for _build_sign_string
IsPost == Upper(sw_method) = MethodPOST

\* C1: for a POST request whose body is present, the sign-string is the uri
\* followed by the body serialized with minimal separators, keys in the
\* mapping's order and non-ASCII characters unescaped, when the body is a
\* mapping or a list, and the uri followed by the string itself when the body
\* is a raw string; nothing else is appended.
C1_PostSignString ==
    (SignStringBuilt /\ IsPost /\ sw_data.t \in {"dict", "list", "str"}) =>
        sw_sign_str =
            sw_uri \o (IF sw_data.t \in {"dict", "list"}
                       THEN json_dumps(sw_data, <<44>> (* , *), <<58>> (* : *), FALSE)
                       ELSE sw_data.s)

\* C2 as stated: the sign-string of a POST request whose body is None, the
\* empty string or the empty mapping is exactly the uri.
C2_EmptyBodyOriginal ==
    (SignStringBuilt /\ IsPost /\ sw_data \in {None, StrV(<<>>), DictV(<<>>)})
    => sw_sign_str = sw_uri

\* C2 amended: the sign-string of a POST request is exactly the uri when the
\* body is None or the empty string, and the uri followed by "{}" when the body
\* is the empty mapping.
C2_EmptyBody ==
    (SignStringBuilt /\ IsPost) =>
        /\ (sw_data \in {None, StrV(<<>>)} => sw_sign_str = sw_uri)
        /\ (sw_data = DictV(<<>>) => sw_sign_str = sw_uri \o <<123, 125>> (* {} *))

\* a POST request with the empty mapping has been given its sign-string
C2_Witness ==
    /\ SignStringBuilt /\ IsPost
    /\ sw_data = DictV(<<>>)
    /\ sw_sign_str = sw_uri \o <<123, 125>> (* {} *)

\* key=percentEncode(value) pairs joined by "&", from the first item on
RECURSIVE QueryPairs(_)
QueryPairs(items) ==
    LET pair == items[1][1] \o <<61>> (* = *) \o quote(PyStr(items[1][2]), {})
    IN  IF Len(items) = 1 THEN pair ELSE pair \o <<38>> (* & *) \o QueryPairs(Tail(items))

\* "/api/sns/web/v1/search/notes?keyword=%E6%B5%8B%E8%AF%95&page=1"
ScenarioSignString ==
    <<47, 97, 112, 105, 47, 115, 110, 115, 47, 119, 101, 98, 47, 118, 49, 47, 115, 101, 97, 114, 99, 104, 47, 110, 111, 116, 101, 115, 63, 107, 101, 121, 119, 111, 114, 100, 61, 37, 69, 54, 37, 66, 53, 37, 56, 66, 37, 69, 56, 37, 65, 70, 37, 57, 53, 38, 112, 97, 103, 101, 61, 49>> (* /api/sns/web/v1/search/notes?keyword=%E6%B5%8B%E8%AF%95&page=1 *)

\* C3: for a GET request the sign-string is the uri alone when the body is
\* empty or absent, and otherwise the uri, "?" and the key=percentEncode(value)
\* pairs joined by "&" in the mapping's iteration order, no character treated
\* as safe; the search scenario gives the string above.
C3_GetSignString ==
    (SignStringBuilt /\ sw_method = MethodGET) =>
        /\ (sw_data \in {None, StrV(<<>>), DictV(<<>>), ListV(<<>>)}
                => sw_sign_str = sw_uri)
        /\ ((sw_data.t = "dict" /\ sw_data.items # <<>>)
                => sw_sign_str = sw_uri \o <<63>> (* ? *) \o QueryPairs(sw_data.items))
        /\ ((sw_uri = UriSearch /\ sw_data = BodySearch)
                => sw_sign_str = ScenarioSignString)

\* the search scenario has been given its sign-string
C3_Witness ==
    /\ SignStringBuilt /\ sw_method = MethodGET
    /\ sw_uri = UriSearch /\ sw_data = BodySearch
    /\ sw_sign_str = ScenarioSignString

\* page.evaluate has been called for window.mnsv2
IsMnsv2Call(e) ==
    /\ Len(e.expr) >= 13
    /\ SubSeq(e.expr, 1, 13) = <<119, 105, 110, 100, 111, 119, 46, 109, 110, 115, 118, 50, 40>> (* window.mnsv2( *)

Mnsv2Calls == {i \in 1..Len(evaluations) : IsMnsv2Call(evaluations[i])}

\* the evaluation of window.mnsv2 raised, or returned None or ""
Mnsv2Failed ==
    \E i \in Mnsv2Calls :
        evaluations[i].answer \in {EvalRaise, EvalReturn(None), EvalReturn(StrV(<<>>))}

\* the keys of a mapping, in order
Keys(d) == [i \in 1..Len(d.items) |-> d.items[i][1]]

\* C4: if the evaluator throws or returns an empty or null result for the
\* signing function, call_mnsv2 yields "" and sign_with_playwright completes
\* without raising and returns the four headers built with the empty token.
C4_EmptyTokenOnFailure ==
    Mnsv2Failed =>
        /\ sw_pc = "done"
        /\ sw_raised = None
        /\ sw_x3_value = StrV(<<>>)
        /\ sw_result # None
        /\ Keys(sw_result) = <<<<120, 45, 115>> (* x-s *), <<120, 45, 116>> (* x-t *), <<120, 45, 115, 45, 99, 111, 109, 109, 111, 110>> (* x-s-common *), <<120, 45, 98, 51, 45, 116, 114, 97, 99, 101, 105, 100>> (* x-b3-traceid *)>>
        /\ LET x_s == _build_xs_payload(StrV(<<>>),
                          IF sw_data.t \in {"dict", "list"}
                          THEN <<111, 98, 106, 101, 99, 116>> (* object *) ELSE <<115, 116, 114, 105, 110, 103>> (* string *))
               x_t == DictGet(sw_result, <<120, 45, 116>> (* x-t *), None).s
           IN  /\ DictGet(sw_result, <<120, 45, 115>> (* x-s *), None) = StrV(x_s)
               /\ DictGet(sw_result, <<120, 45, 115, 45, 99, 111, 109, 109, 111, 110>> (* x-s-common *), None)
                     = StrV(_build_xs_common(sw_a1, sw_b1, x_s, x_t).val)
               /\ Len(DictGet(sw_result, <<120, 45, 98, 51, 45, 116, 114, 97, 99, 101, 105, 100>> (* x-b3-traceid *), None).s) = 16

\* the evaluation raised and the call returned its headers
C4_Witness ==
    /\ sw_pc = "done"
    /\ \E i \in Mnsv2Calls : evaluations[i].answer = EvalRaise
    /\ sw_x3_value = StrV(<<>>)
    /\ sw_result # None

\* C5: the signer never retries: during one call of sign_with_playwright
\* window.mnsv2 is evaluated at most once, whether the evaluation succeeds,
\* returns empty or throws; the call that has ended evaluated it exactly once.
C5_NoRetry ==
    /\ Cardinality(Mnsv2Calls) <= 1
    /\ (sw_pc \in {"done", "raised"} => Cardinality(Mnsv2Calls) = 1)

\* a call that ended after the one evaluation raised
C5_Witness ==
    /\ sw_pc = "done"
    /\ Cardinality(Mnsv2Calls) = 1
    /\ Mnsv2Failed

(***************************************************************************)
(* Properties of the codec (checked under SpecB64)                         *)
(***************************************************************************)
\* "ABCDEFGHIJKLMNOPQRSTUVWXYZabcdefghijklmnopqrstuvwxyz0123456789+/", the
\* alphabet of standard Base64 (RFC 4648)
StdAlphabet ==
    [i \in 1..64 |->
        IF i <= 26 THEN 64 + i
        ELSE IF i <= 52 THEN 96 + (i - 26)
        ELSE IF i <= 62 THEN 47 + (i - 52)
        ELSE IF i = 63 THEN 43 (* + *) ELSE 47 (* / *)]

\* bit k (from 0, most significant first) of the bytes, 0 past the end
BitAt(bytes, k) ==
    IF k >= 8 * Len(bytes) THEN 0
    ELSE (bytes[(k \div 8) + 1] \div (2 ^ (7 - (k % 8)))) % 2

\* the j-th group of six bits (from 0)
Sextet(bytes, j) ==
    32 * BitAt(bytes, 6 * j) + 16 * BitAt(bytes, 6 * j + 1) + 8 * BitAt(bytes, 6 * j + 2)
    + 4 * BitAt(bytes, 6 * j + 3) + 2 * BitAt(bytes, 6 * j + 4) + BitAt(bytes, 6 * j + 5)

\* standard Base64 from its definition: the bit string cut into sextets, each
\* sextet a symbol, "=" up to a multiple of four symbols
StdBase64(bytes) ==
    LET symbols == (8 * Len(bytes) + 5) \div 6
        total   == 4 * ((Len(bytes) + 2) \div 3)
    IN  [j \in 1..total |->
            IF j <= symbols THEN StdAlphabet[Sextet(bytes, j - 1) + 1] ELSE 61 (* = *)]

\* the custom symbol at the position that ch has in the standard alphabet
Substitute(ch) ==
    IF ch = 61 (* = *) THEN ch
    ELSE BASE64_CHARS[CHOOSE i \in 1..64 : StdAlphabet[i] = ch]

\* C6: for every sequence of bytes, b64_encode returns the standard Base64
\* encoding with each symbol replaced position for position by the custom
\* alphabet, "==" after the two symbols of a 1-byte remainder and "=" after the
\* three symbols of a 2-byte remainder.
C6_CustomBase64 ==
    b64_out # None =>
        /\ b64_out.val = [j \in 1..Len(StdBase64(b64_data)) |->
                              Substitute(StdBase64(b64_data)[j])]
        /\ (Len(b64_data) % 3 = 1 =>
                SubSeq(b64_out.val, Len(b64_out.val) - 1, Len(b64_out.val)) = <<61, 61>> (* == *)
                /\ b64_out.val[Len(b64_out.val) - 2] # 61 (* = *))
        /\ (Len(b64_data) % 3 = 2 =>
                b64_out.val[Len(b64_out.val)] = 61 (* = *)
                /\ b64_out.val[Len(b64_out.val) - 1] # 61 (* = *))
        /\ (Len(b64_data) % 3 = 0 => \A j \in 1..Len(b64_out.val) : b64_out.val[j] # 61 (* = *))

\* a full triplet and a 1-byte remainder have been encoded
C6_Witness ==
    /\ b64_out # None
    /\ Len(b64_data) = 4
    /\ b64_data[4] = 255
    /\ b64_out.val[8] = 61 (* = *)

\* C7: for every input of n bytes the output of b64_encode has exactly
\* ceil(n/3)*4 characters, padding included, and for n = 0 it is the empty
\* string.
C7_OutputLength ==
    b64_out # None =>
        /\ Len(b64_out.val) = ((Len(b64_data) + 2) \div 3) * 4
        /\ (Len(b64_data) = 0 => b64_out.val = <<>>)

\* four bytes give eight characters
C7_Witness ==
    /\ b64_out # None
    /\ Len(b64_data) = 4
    /\ Len(b64_out.val) = 8

(***************************************************************************)
(* Properties of mrc (checked under SpecMrc)                               *)
(***************************************************************************)
\* C8: mrc ignores every character after the first 57: two strings of at
\* least 57 characters that agree on their first 57 characters have the same
\* mrc.
C8_IgnoresAfter57 ==
    (/\ mrc_out # None
     /\ Len(mrc_s) >= 57 /\ Len(mrc_t) >= 57
     /\ SubSeq(mrc_s, 1, 57) = SubSeq(mrc_t, 1, 57))
    => mrc_out.s = mrc_out.t

\* two different strings with the same first 57 characters, both hashed
C8_Witness ==
    /\ mrc_out # None
    /\ Len(mrc_s) = 57 /\ Len(mrc_t) > 57
    /\ SubSeq(mrc_t, 1, 57) = mrc_s
    /\ mrc_out.s.ok /\ mrc_out.s = mrc_out.t

\* C9 as stated: for any s of length <= 57 and any string anything,
\* mrc(s) = mrc(s[:57] + anything).
C9_ShortPrefixOriginal ==
    (mrc_out # None /\ Len(mrc_s) <= 57) => mrc_out.s = mrc_out.cat

\* C9 amended: for any s of length >= 57 and any string anything,
\* mrc(s) = mrc(s[:57] + anything).
C9_LongPrefix ==
    (mrc_out # None /\ Len(mrc_s) >= 57) => mrc_out.s = mrc_out.cat

\* a string longer than 57 characters, its first 57 followed by something else
C9_Witness ==
    /\ mrc_out # None
    /\ Len(mrc_s) > 57
    /\ mrc_anything # <<>>
    /\ Slice(mrc_s, 0, 57) \o mrc_anything # mrc_s
    /\ mrc_out.cat.ok /\ mrc_out.s = mrc_out.cat

\* "3988292384"
MrcOfEmptyText == <<51, 57, 56, 56, 50, 57, 50, 51, 56, 52>> (* 3988292384 *)

\* C10: mrc("") is the constant -1 XOR -1 XOR 3988292384 = 3988292384, reached
\* with zero iterations of the loop.
C10_MrcEmpty ==
    (mrc_out # None /\ mrc_s = <<>>) =>
        /\ mrc_out.s.ok
        /\ mrc_out.s.val = PyInt(0, 60856, 33568)
        /\ PyIntStr(mrc_out.s.val) = MrcOfEmptyText
        /\ Min(57, Len(mrc_s)) = 0

\* the empty string has been hashed
C10_Witness ==
    /\ mrc_out # None
    /\ mrc_s = <<>>
    /\ mrc_out.s.ok

\* 0 <= p < 2^32
IsUint32(p) == p.top = 0 /\ p.hi \in 0..65535 /\ p.lo \in 0..65535

\* -2^31 <= p < 2^32: a negative p is -2^32 + hi * 2^16 + lo, at least -2^31
\* when hi >= 2^15
FitsIn32Bits(p) ==
    /\ p.hi \in 0..65535 /\ p.lo \in 0..65535
    /\ \/ p.top = 0
       \/ p.top = -1 /\ p.hi >= 32768

\* the running values of mrc(e): o after each step of the loop from step n with
\* running value o, up to the step that raises.  One step is the loop of mrc on
\* the first n + 1 characters, entered at step n.
RECURSIVE RunningValues(_, _, _)
RunningValues(e, n, o) ==
    IF n >= Min(57, Len(e)) THEN <<>>
    ELSE LET step == mrc_loop(Slice(e, 0, n + 1), n, o)
         IN  IF ~step.ok THEN <<>>
             ELSE <<step.val>> \o RunningValues(e, n + 1, step.val)

\* floor(o / 2^8) for 0 <= o < 2^32, from the limbs
FloorDiv256(o) == PyInt(0, o.hi \div 256, (o.hi % 256) * 256 + (o.lo \div 256))

\* the first two parts of C11: after every loop step the running value lies in
\* [0, 2^32), and the right shift by 8 of a running value (of -1 at the first
\* step) is the unsigned shift of its 32-bit pattern.
C11_LoopUnsigned ==
    mrc_out # None =>
        LET values == RunningValues(mrc_s, 0, MinusOne)
        IN  /\ \A k \in 1..Len(values) : IsUint32(values[k])
            /\ \A k \in 1..Len(values) :
                  _right_shift_unsigned(values[k], 8) = FloorDiv256(values[k])
            /\ _right_shift_unsigned(MinusOne, 8) = PyInt(0, 255, 65535)
            /\ (mrc_out.s.ok =>
                    /\ Len(values) = Min(57, Len(mrc_s))
                    /\ (values # <<>> =>
                          mrc_out.s.val = PyXor(PyXor(values[Len(values)], MinusOne),
                                                MrcFinalMask)))

\* C11: mrc operates on 32-bit values throughout: after every loop step the
\* running value lies in [0, 2^32), the right shift by 8 is an unsigned shift
\* of the 32-bit value, and the value returned by mrc is representable in 32
\* bits (never below -2^31, never 2^32 or more).
C11_Mrc32Bit ==
    mrc_out # None =>
        /\ C11_LoopUnsigned
        /\ (mrc_out.s.ok => FitsIn32Bits(mrc_out.s.val))

\* C28: for every input string, also one with code points above 255 among its
\* first 57 characters, every lookup of mrc is inside the 256 entries of
\* CRC32_TABLE, so mrc returns a value and never fails with an IndexError
C28_LookupsInsideTable ==
    mrc_out # None =>
        /\ Len(CRC32_TABLE) = 256
        /\ mrc_out.s.ok /\ mrc_out.cat.ok /\ mrc_out.t.ok

(***************************************************************************)
(* Properties of the returned headers (checked under Spec)                 *)
(***************************************************************************)
\* the header of the returned mapping, as text
Header(name) == DictGet(sw_result, name, None).s

\* the position (from 0) of a symbol in the custom alphabet
CustomIndex(ch) == (CHOOSE i \in 1..64 : BASE64_CHARS[i] = ch) - 1

\* the bytes that four symbols stand for: 24 bits, less one byte for each "="
DecodeQuad(q) ==
    LET pads == IF q[3] = 61 (* = *) THEN 2 ELSE IF q[4] = 61 (* = *) THEN 1 ELSE 0
        v(j) == IF q[j] = 61 (* = *) THEN 0 ELSE CustomIndex(q[j])
        n    == v(1) * (2 ^ 18) + v(2) * (2 ^ 12) + v(3) * (2 ^ 6) + v(4)
    IN  SubSeq(<<n \div 65536, (n \div 256) % 256, n % 256>>, 1, 3 - pads)

\* the bytes that a text in the custom Base64 stands for
B64Decode(text) ==
    ConcatAll([j \in 1..(Len(text) \div 4) |-> DecodeQuad(SubSeq(text, 4 * j - 3, 4 * j))])

\* the text after "XYS_" in the returned x-s
XsBody == Slice(Header(<<120, 45, 115>> (* x-s *)), 4, Len(Header(<<120, 45, 115>> (* x-s *))))

\* the envelope of x-s written out, for a token x3 without characters that JSON
\* escapes, and a dataType x4
XsEnvelopeText(x3, x4) ==
    <<123, 34, 120, 48, 34, 58, 34, 52, 46, 50, 46, 49, 34, 44, 34, 120, 49, 34, 58, 34, 120, 104, 115, 45, 112, 99, 45, 119, 101, 98, 34, 44, 34, 120, 50, 34, 58, 34, 77, 97, 99, 32, 79, 83, 34, 44, 34, 120, 51, 34, 58, 34>> (* {"x0":"4.2.1","x1":"xhs-pc-web","x2":"Mac OS","x3":" *)
    \o x3 \o <<34, 44, 34, 120, 52, 34, 58, 34>> (* ","x4":" *) \o x4 \o <<34, 125>> (* "} *)

\* the body of the call is a mapping or a list
IsStructured == sw_data.t \in {"dict", "list"}

\* C12: the x-s returned by sign_with_playwright starts with "XYS_" followed by
\* the custom-Base64 encoding of the envelope, and the envelope's x4 is
\* "object" exactly when the body is a mapping or a list, "string" otherwise.
C12_XsEnvelope ==
    sw_result # None =>
        /\ Slice(Header(<<120, 45, 115>> (* x-s *)), 0, 4) = <<88, 89, 83, 95>> (* XYS_ *)
        /\ Len(XsBody) % 4 = 0
        /\ b64_encode(B64Decode(XsBody)) = XsBody
        /\ B64Decode(XsBody) =
              XsEnvelopeText(sw_x3_value.s,
                             IF IsStructured THEN <<111, 98, 106, 101, 99, 116>> (* object *) ELSE <<115, 116, 114, 105, 110, 103>> (* string *))

\* a call with a list body and a token from the page has returned
C12_Witness ==
    /\ sw_result # None
    /\ sw_data.t = "list"
    /\ Slice(Header(<<120, 45, 115>> (* x-s *)), 0, 4) = <<88, 89, 83, 95>> (* XYS_ *)
    /\ sw_x3_value.s # <<>>

\* the envelope of x-s-common written out, for values without characters that
\* JSON escapes; x9 is the decimal text of the checksum
XsCommonText(x5, x6, x7, x8, x9) ==
    <<123, 34, 115, 48, 34, 58, 51, 44, 34, 115, 49, 34, 58, 34, 34, 44, 34, 120, 48, 34, 58, 34, 49, 34, 44, 34, 120, 49, 34, 58, 34, 52, 46, 50, 46, 50, 34, 44, 34, 120, 50, 34, 58, 34, 77, 97, 99, 32, 79, 83, 34, 44, 34, 120, 51, 34, 58, 34, 120, 104, 115, 45, 112, 99, 45, 119, 101, 98, 34, 44, 34, 120, 52, 34, 58, 34, 52, 46, 55, 52, 46, 48, 34, 44, 34, 120, 53, 34, 58, 34>> (* {"s0":3,"s1":"","x0":"1","x1":"4.2.2","x2":"Mac OS","x3":"xhs-pc-web","x4":"4.74.0","x5":" *)
    \o x5 \o <<34, 44, 34, 120, 54, 34, 58, 34>> (* ","x6":" *) \o x6 \o <<34, 44, 34, 120, 55, 34, 58, 34>> (* ","x7":" *) \o x7 \o <<34, 44, 34, 120, 56, 34, 58, 34>> (* ","x8":" *) \o x8
    \o <<34, 44, 34, 120, 57, 34, 58>> (* ","x9": *) \o x9 \o <<44, 34, 120, 49, 48, 34, 58, 49, 53, 52, 44, 34, 120, 49, 49, 34, 58, 34, 110, 111, 114, 109, 97, 108, 34, 125>> (* ,"x10":154,"x11":"normal"} *)

\* C13: in every result of sign_with_playwright the x9 inside the x-s-common
\* envelope is mrc of the returned x-t, then the returned x-s, then the b1 read
\* for the call, and x7 and x8 of the envelope are that x-s and that b1.
C13_CommonChecksum ==
    sw_result # None =>
        LET x_t == Header(<<120, 45, 116>> (* x-t *))
            x_s == Header(<<120, 45, 115>> (* x-s *))
            x9  == mrc(x_t \o x_s \o sw_b1)
        IN  /\ x9.ok
            /\ B64Decode(Header(<<120, 45, 115, 45, 99, 111, 109, 109, 111, 110>> (* x-s-common *))) =
                  XsCommonText(sw_a1, x_t, x_s, sw_b1, PyIntStr(x9.val))

\* a call that read a b1 from local storage has returned
C13_Witness ==
    /\ sw_result # None
    /\ sw_b1 # <<>>
    /\ Header(<<120, 45, 115, 45, 99, 111, 109, 109, 111, 110>> (* x-s-common *)) # <<>>
    /\ mrc(Header(<<120, 45, 116>> (* x-t *)) \o Header(<<120, 45, 115>> (* x-s *)) \o sw_b1).ok

\* the first position at which pat occurs in text
FindFirst(text, pat) ==
    CHOOSE i \in 1..(Len(text) - Len(pat) + 1) :
        /\ SubSeq(text, i, i + Len(pat) - 1) = pat
        /\ \A j \in 1..(i - 1) : text[j] # pat[1] \/ SubSeq(text, j, j + Len(pat) - 1) # pat

\* the text between key and the next double quote
QuotedAfter(text, key) ==
    LET from == FindFirst(text, key) + Len(key)
        to   == CHOOSE j \in from..Len(text) :
                    text[j] = 34 /\ \A k \in from..(j - 1) : text[k] # 34
    IN  SubSeq(text, from, to - 1)

\* the envelope inside the returned x-s-common
CommonEnvelope == B64Decode(Header(<<120, 45, 115, 45, 99, 111, 109, 109, 111, 110>> (* x-s-common *)))

\* C14: the timestamp is read from the clock exactly once per signing call: the
\* returned x-t is the same string as the x6 inside the x-s-common envelope of
\* that call, even if the clock advances during the call.
C14_OneTimestamp ==
    /\ clock_reads <= 1
    /\ sw_result # None =>
          /\ clock_reads = 1
          /\ QuotedAfter(CommonEnvelope, <<34, 120, 54, 34, 58, 34>> (* "x6":" *)) = Header(<<120, 45, 116>> (* x-t *))
          /\ Header(<<120, 45, 116>> (* x-t *)) = NowMillisStr(clock)

\* the clock advanced during a call that has returned
C14_Witness ==
    /\ sw_result # None
    /\ clock > 0
    /\ clock_reads = 1
    /\ Header(<<120, 45, 116>> (* x-t *)) # NowMillisStr(0)
    /\ QuotedAfter(CommonEnvelope, <<34, 120, 54, 34, 58, 34>> (* "x6":" *)) = Header(<<120, 45, 116>> (* x-t *))

\* the answer of the page to the read of local storage
LocalStorageAnswered == evaluations[1].answer

\* the page returned a mapping with an entry named b1
HasB1(answer) ==
    /\ answer.kind = "return"
    /\ answer.val.t = "dict"
    /\ \E i \in 1..Len(answer.val.items) : answer.val.items[i][1] = <<98, 49>> (* b1 *)

\* that entry
B1Entry(answer) ==
    answer.val.items[CHOOSE i \in 1..Len(answer.val.items) :
                         answer.val.items[i][1] = <<98, 49>> (* b1 *)][2].s

\* C16: get_b1_from_localstorage returns the local-storage entry named b1 when
\* it exists, and the empty string when the entry is absent or when reading
\* local storage fails (the evaluator throws or returns nothing usable); it
\* never propagates an exception to sign_with_playwright.
C16_B1OrEmpty ==
    sw_pc \in {"await_mnsv2", "done", "raised"} =>
        /\ evaluations[1].expr = LocalStorageExpr
        /\ sw_b1 = (IF HasB1(LocalStorageAnswered)
                    THEN B1Entry(LocalStorageAnswered) ELSE <<>>)
        \* sign_with_playwright went on to line 216
        /\ Len(evaluations) = 2
        /\ IsMnsv2Call(evaluations[2])

\* the read of local storage raised and the call went on with b1 = ""
C16_Witness ==
    /\ sw_b1 = <<>>
    /\ LocalStorageAnswered = EvalRaise
    /\ sw_pc = "done"
    /\ sw_result # None

\* C17: a request body that is neither a mapping, a list nor a string (a
\* number, say) makes signing fail fast with an error: no sign-string is
\* built from it, window.mnsv2 is not evaluated for it and no headers are
\* returned.
C17_MalformedBodyFails ==
    sw_data.t \notin {"None", "dict", "list", "str"} =>
        /\ sw_sign_str = None
        /\ Mnsv2Calls = {}
        /\ sw_result = None
        /\ sw_pc # "done"

\* the coroutine is suspended at an await
Suspended == sw_pc \in {"await_localstorage", "await_mnsv2"}

\* an evaluation is in progress in the page
EvaluationPending ==
    evaluations # <<>> /\ evaluations[Len(evaluations)].answer = None

\* C19 as stated: a signing call has exactly one external evaluator invocation,
\* that of the signing function, and it is the only suspension point.
C19_OneEvaluationOriginal ==
    /\ Len(evaluations) <= 1
    /\ (Suspended => IsMnsv2Call(evaluations[Len(evaluations)]))

\* C19 amended: a signing call has exactly two external evaluator invocations,
\* the read of window.localStorage and then the signing function, and they are
\* its only suspension points: the call is suspended exactly while one of them
\* is being evaluated in the page.
C19_TwoEvaluations ==
    /\ Len(evaluations) <= 2
    /\ (sw_pc = "start" => evaluations = <<>>)
    /\ (Suspended <=> EvaluationPending)
    /\ (sw_pc = "await_localstorage" =>
            Len(evaluations) = 1 /\ evaluations[1].expr = LocalStorageExpr)
    /\ (sw_pc = "await_mnsv2" =>
            Len(evaluations) = 2 /\ IsMnsv2Call(evaluations[2]))
    /\ (sw_pc \in {"done", "raised"} =>
            /\ Len(evaluations) = 2
            /\ evaluations[1].expr = LocalStorageExpr
            /\ ~IsMnsv2Call(evaluations[1])
            /\ IsMnsv2Call(evaluations[2]))

\* a call has returned after both evaluations were answered
C19_Witness ==
    /\ sw_pc = "done"
    /\ Len(evaluations) = 2
    /\ evaluations[1].answer # None
    /\ evaluations[2].answer # None
    /\ sw_result # None

(***************************************************************************)
(* Properties of interleaved calls (checked under SpecInterleaved)         *)
(***************************************************************************)
\* the calls that have returned
Returned == {c \in Callers : co_calls[c].pc = "done"}

\* a header of the mapping that call c returned, as text
HeaderOf(c, name) == DictGet(co_calls[c].result, name, None).s

\* "0123456789abcdef" as a set
LowerHex == (48..57) \cup (97..102)

\* the k-th group of 16 draws of the random generator
Draws(k) == SubSeq(co_random, 16 * (k - 1) + 1, 16 * k)

\* C15: every value returned by get_trace_id, hence every x-b3-traceid, has
\* exactly 16 characters, each from 0-9a-f, and a new value is drawn on every
\* signing call: each returned call made its own 16 draws of the generator and
\* its header is the text of those draws.
C15_TraceId ==
    /\ Len(co_random) = 16 * Cardinality(Returned)
    /\ \A c \in Returned :
          /\ Len(HeaderOf(c, <<120, 45, 98, 51, 45, 116, 114, 97, 99, 101, 105, 100>> (* x-b3-traceid *))) = 16
          /\ \A i \in 1..16 : HeaderOf(c, <<120, 45, 98, 51, 45, 116, 114, 97, 99, 101, 105, 100>> (* x-b3-traceid *))[i] \in LowerHex
    /\ \E f \in [Returned -> 1..Cardinality(Returned)] :
          /\ \A c, d \in Returned : f[c] = f[d] => c = d
          /\ \A c \in Returned : HeaderOf(c, <<120, 45, 98, 51, 45, 116, 114, 97, 99, 101, 105, 100>> (* x-b3-traceid *)) = Draws(f[c])

\* both calls have returned, with different trace ids
C15_Witness ==
    /\ Returned = Callers
    /\ Len(co_random) = 32
    /\ HeaderOf("first", <<120, 45, 98, 51, 45, 116, 114, 97, 99, 101, 105, 100>> (* x-b3-traceid *)) # HeaderOf("second", <<120, 45, 98, 51, 45, 116, 114, 97, 99, 101, 105, 100>> (* x-b3-traceid *))
    /\ Len(HeaderOf("first", <<120, 45, 98, 51, 45, 116, 114, 97, 99, 101, 105, 100>> (* x-b3-traceid *))) = 16

\* the arguments of call c
ArgumentsOf(c) ==
    [method |-> co_calls[c].method, uri |-> co_calls[c].uri,
     data |-> co_calls[c].data, a1 |-> co_calls[c].a1]

\* C20: signing calls share no mutable state: when two calls are interleaved at
\* their awaits in any order, each returns the x-s and the x-s-common it would
\* return if run alone with the same answers of the page, b1, a1 and clock
\* reading, and CRC32_TABLE and BASE64_CHARS are never modified.
C20_NoSharedState ==
    /\ co_tables = ModuleTables
    /\ \A c \in Returned :
          \E ticks \in 0..co_clock :
              /\ NowMillisStr(ticks) = HeaderOf(c, <<120, 45, 116>> (* x-t *))
              /\ LET alone == SignAlone(ArgumentsOf(c), co_calls[c].ls_answer,
                                        co_calls[c].mnsv2_answer, ticks)
                 IN  /\ HeaderOf(c, <<120, 45, 115>> (* x-s *)) = DictGet(alone, <<120, 45, 115>> (* x-s *), None).s
                     /\ HeaderOf(c, <<120, 45, 115, 45, 99, 111, 109, 109, 111, 110>> (* x-s-common *)) = DictGet(alone, <<120, 45, 115, 45, 99, 111, 109, 109, 111, 110>> (* x-s-common *), None).s

\* the first call has returned while the second, started before that, is still
\* awaiting the page; the page gave the two calls different b1
C20_Witness ==
    /\ co_calls["first"].pc = "done"
    /\ co_calls["second"].pc = "await_mnsv2"
    /\ co_calls["first"].ls_answer # co_calls["second"].ls_answer
    /\ co_calls["first"].result # None
    /\ co_tables = ModuleTables

(***************************************************************************)
(* Properties of the crawlers (checked under SpecCrawler)                  *)
(***************************************************************************)
\* the signing calls on the crawler's page that have not returned
InFlight == {i \in 1..Len(cr_signs) : cr_signs[i].pc # "done"}

\* a task of the Visualizer is inside a display action
WorkerActing == cr_worker.pc \in {"bring_to_front", "goto", "sleep"}

\* C18: in every execution of XhsCrawler (search pages and note details, with
\* or without the Visualizer worker running) and of XhsUrlCrawler, at most one
\* call of sign_with_playwright is in flight on the crawler's page at any
\* time: a signing call starts only after the previous one has returned.
C18_OneSignInFlight ==
    /\ Cardinality(InFlight) <= 1
    /\ \A i \in 1..(Len(cr_signs) - 1) : cr_signs[i].pc = "done"
    /\ (InFlight # {} => cr_main.pc \in {"search_sign", "detail_sign"})

\* the detail of a note is being signed after the search page was, while the
\* Visualizer worker is inside a display action
C18_Witness ==
    /\ cr_config.kind = "XhsCrawler"
    /\ Len(cr_signs) >= 2
    /\ cr_signs[1].pc = "done"
    /\ cr_signs[Len(cr_signs)] = [uri |-> UriFeed, pc |-> "await_mnsv2"]
    /\ cr_main.pc = "detail_sign"
    /\ WorkerActing

(***************************************************************************)
(* Properties of the expression of call_mnsv2 (checked under SpecMnsv2)    *)
(***************************************************************************)
\* a single-quoted literal of JavaScript read from position i of s (the
\* character after the opening quote): a backslash takes the next character
\* with it (\n is a newline, \\ and \' the character itself), a quote ends
\* the literal and a raw newline is not allowed inside it
RECURSIVE ReadLiteral(_, _, _)
ReadLiteral(s, i, val) ==
    IF i > Len(s) THEN [ok |-> FALSE, val |-> val, end |-> i]
    ELSE IF s[i] = 39 THEN [ok |-> TRUE, val |-> val, end |-> i]
    ELSE IF s[i] = 10 THEN [ok |-> FALSE, val |-> val, end |-> i]
    ELSE IF s[i] = 92
    THEN IF i = Len(s) THEN [ok |-> FALSE, val |-> val, end |-> i]
         ELSE ReadLiteral(s, i + 2, Append(val, IF s[i + 1] = 110 THEN 10 ELSE s[i + 1]))
    ELSE ReadLiteral(s, i + 1, Append(val, s[i]))

\* the expression is window.mnsv2('...', '...') with two well-formed literals
\* whose values are a and b
CallsMnsv2With(text, a, b) ==
    LET open   == <<119, 105, 110, 100, 111, 119, 46, 109, 110, 115, 118, 50, 40, 39>> (* window.mnsv2(' *)
        sep    == <<39, 44, 32, 39>> (* ', ' *)
        first  == ReadLiteral(text, Len(open) + 1, <<>>)
        second == ReadLiteral(text, first.end + Len(sep), <<>>)
    IN  /\ Slice(text, 0, Len(open)) = open
        /\ first.ok /\ first.val = a
        /\ Slice(text, first.end - 1, first.end - 1 + Len(sep)) = sep
        /\ second.ok /\ second.val = b
        /\ Slice(text, second.end - 1, Len(text)) = <<39, 41>> (* ') *)

\* C21: in the expression call_mnsv2 hands to the evaluator both arguments are
\* escaped for backslash, single quote and newline, so that each of them
\* stands in a well-formed single-quoted literal and is read back unchanged
C21_BothArgumentsEscaped ==
    cm_expr # None => CallsMnsv2With(cm_expr.text, cm_sign_str, cm_md5_str)

(***************************************************************************)
(* Properties of the chunks of b64_encode (checked under SpecB64)          *)
(***************************************************************************)
\* the starts of the chunks of b64_encode: range(0, main_length, 16383)
ChunkStarts(data) ==
    {i \in 0..(Len(data) - (Len(data) % 3)) :
        i % 16383 = 0 /\ i < Len(data) - (Len(data) % 3)}

\* the multiple-of-3 prefix encoded as one chunk, group by group
WholePrefix(data) ==
    ConcatAll([k \in 1..(Len(data) \div 3) |->
        _triplet_to_base64(data[3 * k - 2] * 65536 + data[3 * k - 1] * 256 + data[3 * k])])

\* C22: the chunks of 16383 bytes have no effect on the result: every chunk
\* starts on a multiple of 3 and the output is the encoding of the whole
\* multiple-of-3 prefix as one chunk, followed by the encoding of the rest
C22_ChunkingInvisible ==
    b64_out # None =>
        /\ \A i \in ChunkStarts(b64_data) : i % 3 = 0
        /\ Slice(b64_out.val, 0, 4 * (Len(b64_data) \div 3)) = WholePrefix(b64_data)
        /\ b64_out.val = EncodeWithChunk(b64_data, Len(b64_data) + 3)

\* a list of three chunks, with one byte left over, has been encoded
C22_Witness ==
    /\ b64_out # None
    /\ Cardinality(ChunkStarts(b64_data)) = 3
    /\ Len(b64_data) % 3 = 1

\* stop() of the Visualizer has returned and the browser is closed
VisualizerStopped == cr_config # None /\ cr_config.display_mode /\ cr_main.pc = "closed"

\* C23: when Visualizer.stop() returns, every display action that was enqueued
\* has run to completion: none is left in the queue and none was cancelled
\* while it was executing
C23_StopAfterAllActions ==
    VisualizerStopped =>
        /\ cr_queue.items = <<>>
        /\ Len(cr_worker.log) = Len(cr_queue.puts)
        /\ \A i \in 1..Len(cr_worker.log) : cr_worker.log[i].outcome \in {"shown", "failed"}

\* the actions the worker has taken from the queue so far
TakenCount == Len(cr_worker.log) + (IF cr_worker.action = None THEN 0 ELSE 1)

\* C26: the worker runs the display actions one at a time in the order in
\* which they were put; an action that fails does not end the worker, which
\* ends only when stop() cancels it; task_done has been called once for every
\* action that has ended, so the count of unfinished tasks is the number of
\* actions put and not ended, never negative, and zero once all have ended
C26_WorkerInOrder ==
    (cr_config # None /\ cr_config.display_mode) =>
        /\ \A i \in 1..Len(cr_worker.log) : cr_worker.log[i].action = cr_queue.puts[i]
        /\ (cr_worker.action # None =>
                cr_worker.action = cr_queue.puts[Len(cr_worker.log) + 1])
        /\ cr_queue.items = SubSeq(cr_queue.puts, TakenCount + 1, Len(cr_queue.puts))
        /\ cr_queue.unfinished = Len(cr_queue.puts) - Len(cr_worker.log)
        /\ cr_queue.unfinished >= 0
        /\ (Len(cr_worker.log) = Len(cr_queue.puts) => cr_queue.unfinished = 0)
        /\ (cr_worker.pc \notin {"get", "bring_to_front", "goto", "sleep"} =>
                cr_worker.pc = "cancelled" /\ cr_worker.cancelling)

\* an action has failed, a later one has been shown and nothing is unfinished
C26_Witness ==
    /\ cr_config # None /\ cr_config.display_mode
    /\ Len(cr_worker.log) >= 2
    /\ cr_worker.log[1].outcome = "failed"
    /\ cr_worker.log[2].outcome = "shown"
    /\ cr_worker.log[1].action # cr_worker.log[2].action
    /\ cr_queue.unfinished = 0

\* XhsCrawler.search runs with display mode off
SearchDisplayOff ==
    cr_config # None /\ cr_config.kind = "XhsCrawler" /\ ~cr_config.display_mode

\* the request of a search page or of a note detail is being signed or awaited
RequestInHand ==
    cr_main.pc \in {"search_sign", "search_request", "detail_sign", "detail_request"}

\* a step of search() that counts a note of the keyword in hand does so on the
\* return of a download, for a note that has a record in annotations
CountsRecordedNote ==
    (/\ SearchDisplayOff
     /\ cr_main'.k = cr_main.k
     /\ cr_main'.processed_notes_count # cr_main.processed_notes_count) =>
        /\ cr_main'.processed_notes_count = cr_main.processed_notes_count + 1
        /\ cr_main.pc = "download"
        /\ cr_main.note_success \/ cr_main'.annotated_notes = cr_main.annotated_notes + 1
        /\ cr_main'.annotated_notes >= 1

\* C25: with display mode off, for each keyword the count of processed notes
\* never exceeds max_notes_count, a note is counted only after one of its images
\* has been downloaded and recorded, and no search page and no note detail is
\* requested once the count has reached max_notes_count (with max_notes_count
\* = 0 no request is made at all)
C25_CountWithinMax ==
    /\ [](SearchDisplayOff =>
            /\ cr_main.processed_notes_count <= cr_config.max_notes_count
            /\ cr_main.processed_notes_count <= cr_main.annotated_notes
            /\ (RequestInHand =>
                    cr_main.processed_notes_count < cr_config.max_notes_count)
            /\ (cr_config.max_notes_count = 0 => cr_signs = <<>> /\ ~RequestInHand))
    /\ [][CountsRecordedNote]_vars

\* search() has ended with the count of the last keyword at max_notes_count
\* while the server had more pages: the last request was that of a note detail
C25_Witness ==
    /\ SearchDisplayOff
    /\ cr_main.pc = "search_done"
    /\ cr_config.max_notes_count >= 1
    /\ cr_main.processed_notes_count = cr_config.max_notes_count
    /\ cr_main.has_more
    /\ cr_signs # <<>> /\ LastSign = [uri |-> UriFeed, pc |-> "done"]

\* the notes of the keyword in hand with a record in annotations whose loop
\* over the images has ended
AnnotatedAndLeft ==
    cr_main.annotated_notes - (IF cr_main.note_success THEN 1 ELSE 0)

\* C30: with display mode off, for each keyword the number of notes that have
\* a record in annotations never exceeds max_notes_count and every such note
\* was counted as processed, also when a download or a write fails part-way
\* through the image list of a note
C30_AnnotatedNotesCounted ==
    SearchDisplayOff =>
        /\ cr_main.annotated_notes <= cr_config.max_notes_count
        /\ AnnotatedAndLeft <= cr_main.processed_notes_count

\* the text of x9 in an envelope of x-s-common
X9Of(envelope) ==
    LET key  == <<44, 34, 120, 57, 34, 58>> (* ,"x9": *)
        from == FindFirst(envelope, key) + Len(key)
        to   == FindFirst(envelope, <<44, 34, 120, 49, 48, 34, 58>> (* ,"x10": *))
    IN  SubSeq(envelope, from, to - 1)

\* values of b1 that another signing call may have read from local storage
OtherB1s ==
    { <<>>, <<73, 51, 56, 114, 72, 100, 103, 115>> (* I38rHdgs *), <<90, 107, 57>> (* Zk9 *), <<27979>> (* U+6D4B *) }

\* C27: the x9 of x-s-common never depends on b1: the returned x-t and x-s have
\* together at least 57 characters, so the 57 characters that mrc reads are
\* the same whatever b1 follows them, and the returned x-s-common is the
\* envelope whose x9 is the checksum of those characters alone
C27_X9IgnoresB1 ==
    sw_result # None =>
        LET x_t  == Header(<<120, 45, 116>> (* x-t *))
            x_s  == Header(<<120, 45, 115>> (* x-s *))
            read == SubSeq(x_t \o x_s, 1, 57)
            x9   == mrc(read)
        IN  /\ Len(x_t) + Len(x_s) >= 57
            /\ \A b1 \in OtherB1s \cup {sw_b1} : SubSeq(x_t \o x_s \o b1, 1, 57) = read
            /\ x9.ok
            /\ X9Of(CommonEnvelope) = PyIntStr(x9.val)

\* a call that read a b1 has returned: with the empty b1 its x-s-common would
\* be another text
C27_Witness ==
    /\ sw_result # None
    /\ sw_b1 # <<>>
    /\ LET other == _build_xs_common(sw_a1, <<>>, Header(<<120, 45, 115>> (* x-s *)), Header(<<120, 45, 116>> (* x-t *)))
       IN  other.ok /\ other.val # Header(<<120, 45, 115, 45, 99, 111, 109, 109, 111, 110>> (* x-s-common *))

(***************************************************************************)
(* Properties of the API calls of XhsCrawler (checked under SpecRequest)   *)
(***************************************************************************)
\* the attempts that have ended without success
FailedAttempts ==
    {k \in 1..Len(rq_attempts) : rq_attempts[k].outcome \notin {"awaited", "success"}}

\* C24: _request, for any retry_count, makes at most retry_count attempts,
\* returns the data of the first successful attempt and makes no attempt after
\* it, sleeps between a failed attempt and the next, raises the exception of
\* the last attempt when all retry_count attempts have failed, and never
\* returns normally without a successful attempt
C24_RequestRetries ==
    rq_pc # "idle" =>
        /\ Len(rq_attempts) <= rq_call.retry_count
        /\ \A k \in 1..(Len(rq_attempts) - 1) : k \in FailedAttempts
        /\ (rq_attempts # <<>> => rq_clock >= Len(rq_attempts) - 1 /\ rq_i = Len(rq_attempts) - 1)
        /\ (rq_pc = "returned" =>
                /\ rq_attempts # <<>>
                /\ rq_attempts[Len(rq_attempts)].outcome = "success"
                /\ rq_result = [kind |-> "return", val |-> [data_of |-> Len(rq_attempts) - 1]])
        /\ (rq_pc = "raised" =>
                /\ Len(rq_attempts) = rq_call.retry_count
                /\ FailedAttempts = 1..Len(rq_attempts)
                /\ rq_result = [kind |-> "raise", exc |-> rq_attempts[Len(rq_attempts)].outcome,
                                of |-> Len(rq_attempts) - 1])

\* the four headers of the signer as one attempt sent them
SignedHeaders(headers) ==
    [name \in {<<88, 45, 83>> (* X-S *), <<88, 45, 84>> (* X-T *), <<120, 45, 83, 45, 67, 111, 109, 109, 111, 110>> (* x-S-Common *), <<88, 45, 66, 51, 45, 84, 114, 97, 99, 101, 105, 100>> (* X-B3-Traceid *)} |->
        DictGet(headers, name, None)]

\* C29: an API call of XhsCrawler signs once, before its first attempt: the
\* evaluator is invoked for that one signing call only, never after an
\* attempt, and every attempt sends the same X-S, X-T, x-S-Common and
\* X-B3-Traceid
C29_SignedOncePerCall ==
    (rq_pc # "idle" /\ rq_call.site \in {"search", "get_note_detail"}) =>
        /\ Len(rq_evaluations) <= 2
        /\ \A e \in 1..Len(rq_evaluations) : rq_evaluations[e].after = 0
        /\ (rq_attempts # <<>> =>
                /\ Len(rq_evaluations) = 2
                /\ rq_evaluations[1].expr = "localStorage"
                /\ rq_evaluations[2].expr = "mnsv2")
        /\ \A k \in 1..Len(rq_attempts) :
              /\ SignedHeaders(rq_attempts[k].headers) = SignedHeaders(rq_attempts[1].headers)
              /\ \A name \in DOMAIN SignedHeaders(rq_attempts[k].headers) :
                    SignedHeaders(rq_attempts[k].headers)[name] # None

\* a search call has made three attempts, seconds apart, and the last has ended
C29_Witness ==
    /\ rq_pc \in {"returned", "raised"}
    /\ rq_call.site = "search"
    /\ Len(rq_attempts) = 3
    /\ rq_clock >= 2

====
